---- MODULE Spec2Model ----
(***************************************************************************)
(* Model of the privileged disk-writer helper (DiskWriterHelper) and of    *)
(* its client (ElevationHelper).                                           *)
(*                                                                         *)
(* Sizes are scaled: the source uses MBR_SIZE = 512, sector sizes 512 and  *)
(* 4096 and 10 MiB buffers.  The model keeps the relations the code        *)
(* depends on (MBR_SIZE <= sector size, MBR_SIZE divides the sector size,  *)
(* the sector size divides BUFFER_SIZE) with small numbers.                *)
(*                                                                         *)
(* SHA-256 is modelled as an ideal (collision free) hash: the hash state   *)
(* is the sequence of bytes fed so far and two digests are equal exactly   *)
(* when the fed byte sequences are equal.                                  *)
(***************************************************************************)
EXTENDS Integers, Sequences, FiniteSets, TLC

\* ------------------------------------------------------------------------
\* Sizes
\* ------------------------------------------------------------------------

\* const int MBR_SIZE = 512 (scaled)
MBR_SIZE == 2

\* const int BUFFER_SIZE = 10 * 1024 * 1024 (scaled)
BUFFER_SIZE == 4

\* constexpr qint64 VERIFY_BLOCK_SIZE = 10 * 1024 * 1024 (scaled)
VERIFY_BLOCK_SIZE == 4

\* bytesPerSector as probed by GetDiskFreeSpace: 512 or 4096 (the default
\* when the probe fails), scaled to MBR_SIZE and 2 * MBR_SIZE
SectorSizes == {MBR_SIZE, 2 * MBR_SIZE}

\* longest source image
MaxSrcLen == 6

\* sizes of the target device: one no larger than VERIFY_BLOCK_SIZE and one
\* that holds VERIFY_BLOCK_SIZE + any source + padding
DevSizes == {BUFFER_SIZE, VERIFY_BLOCK_SIZE + MaxSrcLen + 2 * MBR_SIZE}

Byte == {0, 1}

\* all byte sequences of length 0..n
RECURSIVE SeqsUpTo(_)
SeqsUpTo(n) ==
    IF n = 0 THEN {<<>>}
    ELSE LET S == SeqsUpTo(n - 1)
         IN  S \cup {Append(s, b) : s \in {t \in S : Len(t) = n - 1}, b \in Byte}

Sources == SeqsUpTo(MaxSrcLen)

Min(a, b) == IF a < b THEN a ELSE b

Zeros(n) == [i \in 1..n |-> 0]

\* ------------------------------------------------------------------------
\* Protocol: bounds, tokens and the QDataStream wire format
\* ------------------------------------------------------------------------

\* connections the pipe server is offered during one life of the helper
MaxConns == 2

Conns == 1 .. MaxConns

\* commands one client sends
MaxCmds == 1

\* bytes of the source file of a WRITE command
SourceSize == 2

\* blocks the read loop of one verifyImage call reads
MaxVerifyChunks == 1

\* sizes of a fragment when the pipe delivers written bytes in pieces
Fragments == {2}

\* deliveries of a fragment during one life of the helper
MaxFragments == 1

\* Strings are sequences of UTF-16 code units.
\* "HELLO"
HELLO == <<72, 69, 76, 76, 79>>

\* "READY"
READY == <<82, 69, 65, 68, 89>>

\* "SUCCESS"
SUCCESS == <<83, 85, 67, 67, 69, 83, 83>>

\* "FAILURE"
FAILURE == <<70, 65, 73, 76, 85, 82, 69>>

\* "SHUTDOWN"
SHUTDOWN == <<83, 72, 85, 84, 68, 79, 87, 78>>

\* "FORMAT "
PrefixFORMAT == <<70, 79, 82, 77, 65, 84, 32>>

\* "WRITE "
PrefixWRITE == <<87, 82, 73, 84, 69, 32>>

\* "CUSTOMIZE "
PrefixCUSTOMIZE == <<67, 85, 83, 84, 79, 77, 73, 90, 69, 32>>

\* "VERIFY "
PrefixVERIFY == <<86, 69, 82, 73, 70, 89, 32>>

\* VERIFY "d" "s" ""   as runVerifyImage("d", "s", QByteArray()) builds it
CmdVerify == <<86, 69, 82, 73, 70, 89, 32, 34, 100, 34, 32, 34, 115, 34, 32, 34, 34>>

\* the command strings a client puts on the wire
Commands == {CmdVerify}

\* enum ProgressType
VerifyProgress == 2
WriteProgress == 3

\* a quint32 / qint32, big-endian (values below 65536)
U32(n) == <<0, 0, n \div 256, n % 256>>

\* a qint64, big-endian
I64(n) == <<0, 0, 0, 0>> \o U32(n)

RECURSIVE Utf16(_)
\* the UTF-16BE bytes of a string
Utf16(s) == IF s = <<>> THEN <<>> ELSE <<Head(s) \div 256, Head(s) % 256>> \o Utf16(Tail(s))

\* the string of an even number of UTF-16BE bytes
FromUtf16(b) == [i \in 1..(Len(b) \div 2) |-> b[2 * i - 1] * 256 + b[2 * i]]

\* out << QString : the byte length, then the UTF-16BE bytes
EncodeString(s) == U32(2 * Len(s)) \o Utf16(s)

\* out << progressType << now << total
EncodeProgress(kind, now, total) == U32(kind) \o I64(now) \o I64(total)

\* in >> QString on a stream over the bytes b.  rest is what the device still
\* holds afterwards when the stream reads it directly: a read that runs out
\* of bytes has consumed the bytes it got.
DecodeString(b) ==
    IF Len(b) < 4
    THEN [status |-> "ReadPastEnd", str |-> <<>>, rest |-> <<>>]
    ELSE LET body == SubSeq(b, 5, Len(b))
             n == (b[2] * 256 + b[3]) * 256 + b[4]
         IN  IF b[1] = 255 /\ b[2] = 255 /\ b[3] = 255 /\ b[4] = 255
             THEN [status |-> "Ok", str |-> <<>>, rest |-> body]
             ELSE IF b[4] % 2 = 1
             THEN [status |-> "ReadCorruptData", str |-> <<>>, rest |-> body]
             ELSE IF b[1] # 0 \/ n > Len(body)
             THEN [status |-> "ReadPastEnd", str |-> <<>>, rest |-> <<>>]
             ELSE [status |-> "Ok",
                   str |-> FromUtf16(SubSeq(body, 1, n)),
                   rest |-> SubSeq(body, n + 1, Len(body))]

RECURSIVE BigEndian(_)
\* the number a run of big-endian bytes stands for
BigEndian(b) ==
    IF b = <<>> THEN 0 ELSE BigEndian(SubSeq(b, 1, Len(b) - 1)) * 256 + b[Len(b)]

\* the qint32 / qint64 of big-endian bytes; a value of more than three
\* significant bytes is kept as its bytes
Wide(b) ==
    LET high == SubSeq(b, 1, Len(b) - 3)
    IN  IF \A i \in 1..Len(high) : high[i] = 0
        THEN BigEndian(SubSeq(b, Len(b) - 2, Len(b)))
        ELSE b

\* stream >> progressType >> now >> total on a stream over the bytes b
DecodeProgress(b) ==
    IF Len(b) < 20
    THEN [status |-> "ReadPastEnd", progressType |-> 0, now |-> 0, total |-> 0]
    ELSE [status |-> "Ok",
          progressType |-> Wide(SubSeq(b, 1, 4)),
          now |-> Wide(SubSeq(b, 5, 12)),
          total |-> Wide(SubSeq(b, 13, 20))]

\* the signal processNextMessage emits for a decoded progress update, as
\* <<progressType, now, total>>; none for another type
ProgressSignal(p) ==
    IF p.status = "Ok" /\ \E progressType \in {1, 2, 3} : p.progressType = progressType
    THEN <<p.progressType, p.now, p.total>> ELSE <<>>

\* b begins with the 20 bytes of a progress frame
ProgressFrameAhead(b) ==
    /\ Len(b) >= 20
    /\ \E progressType \in {1, 2, 3} : SubSeq(b, 1, 4) = U32(progressType)

StartsWith(s, p) == Len(s) >= Len(p) /\ SubSeq(s, 1, Len(p)) = p

\* ------------------------------------------------------------------------
\* State of the write / verify pipeline (DiskWriterHelper)
\* ------------------------------------------------------------------------
VARIABLES
    src,                \* content of the source file of the current job
    srcPos,             \* sourceFileObj read position
    isPhysicalDrive,    \* target is \\.\PhysicalDrive<N> (else a volume)
    driveNumberOk,      \* m_lastDriveNumber >= 0 (the number was parsed)
    bytesPerSector,     \* probed sector size
    device,             \* bytes of the target device
    filePointer,        \* file pointer of deviceHandle
    openHandles,        \* number of device handles currently open
    wpc,                \* position inside writeImageToDevice
    mbrBlock,           \* the stashed first MBR_SIZE bytes
    mbrSaved,
    success,
    totalBytesWritten,
    m_bytesTotal,
    m_bytesWritten,
    m_verifyHash,       \* bytes fed to the rolling hash so far
    m_sourceHash,       \* stored digest, <<>> when empty
    writeLog,           \* device writes that were carried out, in order:
                        \* offset, length, length of the real data, the
                        \* bytes written after the real data
    writeResult,        \* what the last writeImageToDevice returned
    corrupted,          \* offset changed on the device after the write, or -1
    verifyResult        \* what the last verifyImage returned

wvars == <<src, srcPos, isPhysicalDrive, driveNumberOk, bytesPerSector, device,
           filePointer, openHandles, wpc, mbrBlock, mbrSaved,
           success, totalBytesWritten, m_bytesTotal, m_bytesWritten,
           m_verifyHash, m_sourceHash, writeLog, writeResult, corrupted,
           verifyResult>>

\* ------------------------------------------------------------------------
\* State of the helper / client protocol (DiskWriterHelper, ElevationHelper)
\* ------------------------------------------------------------------------
VARIABLES
    helper,             \* the DiskWriterHelper object of the helper process
    conn,               \* per connection: both sockets of the pipe and the
                        \* bytes on their way
    client,             \* per connection: the ElevationHelper object that
                        \* opened it
    hist,               \* history: which handshake steps happened where, and
                        \* which commands were dispatched
    op,                 \* the run* call of the client of connection 1 and
                        \* its clock
    job,                \* one writeImageToDevice call seen from outside:
                        \* the disk utility's exit codes, the WriteFile
                        \* attempts and the sendProgressUpdate calls
    call                \* one call of a function that depends on its
                        \* arguments only: the arguments, and the result once
                        \* the call has returned

pvars == <<helper, conn, client, hist, op, job, call>>

vars == <<wvars, pvars>>

\* no run* call yet
OpIdle ==
    [operation |-> "none",
     pc |-> "idle",
     timeout |-> 0,
     elapsed |-> 0,
     since |-> 0,
     operationFailed |-> FALSE,
     result |-> "none",
     sent |-> FALSE,
     progress |-> 0,
     tokenSent |-> FALSE,
     tokenSeen |-> <<>>,
     timedOut |-> FALSE,
     sockError |-> FALSE,
     broken |-> FALSE,
     exitCode |-> -1,
     command |-> 0,
     answered |-> 0,
     taken |-> 0,
     seenFor |-> 0,
     calls |-> 0,
     attempts |-> 0,
     tried |-> 0,
     spawned |-> 0,
     frame |-> <<>>,
     ensureCalls |-> {}]

\* no call of a function of its arguments
NoCall == [fn |-> "none"]

\* no writeImageToDevice call yet
JobIdle ==
    [pc |-> "idle",
     physical |-> FALSE,
     numbered |-> FALSE,
     chunks |-> 0,
     mbrSaved |-> FALSE,
     prepFailed |-> FALSE,
     postFailed |-> FALSE,
     written |-> 0,
     success |-> FALSE,
     log |-> <<>>,
     result |-> "none"]

\* A helper process that startDaemonMode has put behind its pipe server, and
\* clients that have not connected yet.
InitProtocol ==
    /\ op = OpIdle
    /\ job = JobIdle
    /\ helper = [alive |-> TRUE,
                 quit |-> FALSE,
                 m_connectionState |-> "Idle",
                 m_currentCommand |-> <<>>,
                 m_clientConnection |-> 0,
                 verifying |-> <<>>,
                 timers |-> {},
                 backlog |-> <<>>,
                 lastSentNow |-> -1,
                 lastSentType |-> -1]
    /\ conn = [c \in Conns |->
                 [used |-> FALSE,
                  serverOpen |-> FALSE,
                  slots |-> FALSE,
                  disconnected |-> FALSE,
                  srvBuf |-> <<>>,
                  srvArrived |-> 0,
                  clientOpen |-> FALSE,
                  peerClosed |-> FALSE,
                  cliBuf |-> <<>>,
                  cliArrived |-> 0]]
    /\ client = [c \in Conns |->
                 [m_connectionState |-> "Disconnected",
                  pc |-> "idle",
                  m_messageQueue |-> <<>>,
                  m_operationComplete |-> FALSE,
                  m_helperProcess |-> FALSE,
                  m_eventTimer |-> FALSE,
                  sent |-> 0]]
    /\ hist = [helloSent |-> {},
               helloDecoded |-> {},
               readyWritten |-> {},
               readyAccepted |-> {},
               dispatched |-> {},
               replaced |-> {},
               fragments |-> 0,
               serial |-> 0,
               tokensWritten |-> 0,
               completed |-> {},
               lateProgress |-> FALSE,
               commandIn |-> {},
               foreignGreeting |-> {},
               foreignAnswer |-> {},
               misgreeted |-> {},
               misanswered |-> {},
               timeouts |-> {},
               foreignCommand |-> {},
               answered |-> {},
               splitReads |-> {},
               discarded |-> {},
               progressTaken |-> {},
               lastFrame |-> <<>>,
               repeated |-> FALSE,
               suppressed |-> FALSE,
               writes |-> {},
               earlier |-> <<>>]

\* QCryptographicHash::result() of a hash that was fed the bytes s
Digest(s) == <<s>>

\* QByteArray() : the empty m_sourceHash of a helper that never wrote
EmptyHash == <<>>

\* ((n + bytesPerSector - 1) / bytesPerSector) * bytesPerSector
RoundUp(n, sector) ==
    IF n % sector # 0 THEN ((n + sector - 1) \div sector) * sector ELSE n

\* the buffer handed to WriteFile: the data followed by zeros up to the
\* rounded length
Padded(data, sector) == data \o Zeros(RoundUp(Len(data), sector) - Len(data))

\* WriteFile at offset off (0-based) of a device dev
DevWrite(dev, off, data) ==
    [i \in 1..Len(dev) |->
        IF i > off /\ i <= off + Len(data) THEN data[i - off] ELSE dev[i]]

\* a write fits when it ends inside the device
Fits(dev, off, data) == off + Len(data) <= Len(dev)

\* QFile::read(n) at position pos (0-based): short at the end of the device
DevRead(dev, pos, n) ==
    IF pos >= Len(dev) \/ n <= 0 THEN <<>>
    ELSE SubSeq(dev, pos + 1, Min(pos + n, Len(dev)))

InitDevice ==
    /\ src = <<>>
    /\ srcPos = 0
    /\ isPhysicalDrive = FALSE
    /\ driveNumberOk = FALSE
    /\ bytesPerSector \in SectorSizes
    /\ \E n \in DevSizes, fill \in Byte : device = [i \in 1..n |-> fill]
    /\ filePointer = 0
    /\ openHandles = 0
    /\ wpc = "idle"
    /\ mbrBlock = <<>>
    /\ mbrSaved = FALSE
    /\ success = FALSE
    /\ totalBytesWritten = 0
    /\ m_bytesTotal = 0
    /\ m_bytesWritten = 0
    /\ m_verifyHash = <<>>
    /\ m_sourceHash = EmptyHash
    /\ writeLog = <<>>
    /\ writeResult = "none"
    /\ corrupted = -1
    /\ verifyResult = "none"

InitWrite ==
    /\ InitDevice
    /\ InitProtocol
    /\ call = NoCall

\* ------------------------------------------------------------------------
\* writeImageToDevice
\* ------------------------------------------------------------------------

\* Open the source file and the device (three attempts inside the step).
\* outcome "nosrc": the source cannot be opened; "nodev": every CreateFileA
\* attempt failed; "ok": deviceHandle is valid.
WriteOpen ==
    /\ wpc = "idle"
    /\ \E s \in Sources, phys \in BOOLEAN, numOk \in BOOLEAN,
          outcome \in {"nosrc", "nodev", "ok"} :
        /\ phys \/ ~numOk
        /\ src' = s
        /\ isPhysicalDrive' = phys
        /\ driveNumberOk' = numOk
        /\ writeLog' = <<>>
        /\ IF outcome = "ok"
           THEN /\ openHandles' = openHandles + 1
                /\ filePointer' = 0
                /\ wpc' = "stash"
                /\ writeResult' = "none"
           ELSE /\ wpc' = "done"
                /\ writeResult' = "failure"
                /\ UNCHANGED <<openHandles, filePointer>>
    /\ UNCHANGED <<srcPos, bytesPerSector, device, mbrBlock, mbrSaved, success,
                   totalBytesWritten, m_bytesTotal, m_bytesWritten,
                   m_verifyHash, m_sourceHash, corrupted, verifyResult>>
    /\ UNCHANGED pvars

\* the MBR block that mbrSaved is decided from: QByteArray(MBR_SIZE, 0)
\* overwritten by what sourceFileObj.read(mbrBlock.data(), MBR_SIZE) returned
StashedBlock(s) ==
    LET n == Min(MBR_SIZE, Len(s))
    IN  SubSeq(s, 1, n) \o Zeros(MBR_SIZE - n)

\* Reset the job counters and the hash, read and hash the MBR block and seek
\* the source past it.  seekOk is the result of sourceFileObj.seek(MBR_SIZE).
WriteStash ==
    /\ wpc = "stash"
    /\ \E seekOk \in BOOLEAN :
        LET mbrBytesRead == Min(MBR_SIZE, Len(src))
            saved == (mbrBytesRead = MBR_SIZE)
        IN  /\ m_bytesTotal' = Len(src)
            /\ m_bytesWritten' = 0
            /\ mbrBlock' = StashedBlock(src)
            /\ m_verifyHash' = IF saved THEN SubSeq(src, 1, mbrBytesRead) ELSE <<>>
            /\ IF saved /\ ~seekOk
               THEN mbrSaved' = FALSE /\ srcPos' = 0
               ELSE mbrSaved' = saved /\ srcPos' = mbrBytesRead
            /\ (seekOk \/ saved)
    /\ success' = TRUE
    /\ totalBytesWritten' = 0
    /\ wpc' = "loop"
    /\ UNCHANGED <<src, isPhysicalDrive, driveNumberOk, bytesPerSector, device,
                   filePointer, openHandles, m_sourceHash, writeLog,
                   writeResult, corrupted, verifyResult>>
    /\ UNCHANGED pvars

\* device offset of the next body chunk
ChunkOffset ==
    IF isPhysicalDrive
    THEN (IF mbrSaved THEN totalBytesWritten + MBR_SIZE ELSE totalBytesWritten)
    ELSE filePointer

\* One iteration of the read and write loop.  outcome "seekfail":
\* SetFilePointerEx failed; "writefail": WriteFile failed twice; "ok": the
\* chunk was written (at the first attempt or at the retry).
WriteChunk ==
    /\ wpc = "loop"
    /\ success
    /\ srcPos < Len(src)
    /\ LET bytesRead == Min(BUFFER_SIZE, Len(src) - srcPos)
           chunk == SubSeq(src, srcPos + 1, srcPos + bytesRead)
           data == Padded(chunk, bytesPerSector)
           off == ChunkOffset
       IN  /\ srcPos' = srcPos + bytesRead
           /\ m_verifyHash' = m_verifyHash \o chunk
           /\ \E outcome \in {"seekfail", "writefail", "ok"} :
               /\ outcome = "seekfail" => isPhysicalDrive
               /\ outcome = "ok" => Fits(device, off, data)
               /\ IF outcome = "ok"
                  THEN /\ device' = DevWrite(device, off, data)
                       /\ filePointer' = off + Len(data)
                       /\ writeLog' = Append(writeLog,
                              [off |-> off, len |-> Len(data),
                               real |-> bytesRead,
                               pad |-> SubSeq(data, bytesRead + 1, Len(data))])
                       /\ totalBytesWritten' = totalBytesWritten + bytesRead
                       /\ m_bytesWritten' = totalBytesWritten + bytesRead
                       /\ UNCHANGED success
                  ELSE /\ success' = FALSE
                       /\ filePointer' = IF outcome = "writefail" THEN off ELSE filePointer
                       /\ UNCHANGED <<device, writeLog, totalBytesWritten, m_bytesWritten>>
    /\ UNCHANGED <<src, isPhysicalDrive, driveNumberOk, bytesPerSector,
                   openHandles, wpc, mbrBlock, mbrSaved, m_bytesTotal,
                   m_sourceHash, writeResult, corrupted, verifyResult>>
    /\ UNCHANGED pvars

\* After the loop: write the stashed MBR block at offset 0, up to three
\* attempts.  written is whether one of the attempts succeeded.
WriteMBR ==
    /\ wpc = "loop"
    /\ ~success \/ srcPos >= Len(src)
    /\ IF success /\ mbrSaved
       THEN LET data == Padded(mbrBlock, bytesPerSector)
            IN  \E written \in BOOLEAN :
                /\ written => Fits(device, 0, data)
                /\ IF written
                   THEN /\ device' = DevWrite(device, 0, data)
                        /\ filePointer' = Len(data)
                        /\ writeLog' = Append(writeLog,
                               [off |-> 0, len |-> Len(data),
                                real |-> MBR_SIZE,
                                pad |-> SubSeq(data, MBR_SIZE + 1, Len(data))])
                        /\ UNCHANGED success
                   ELSE /\ success' = FALSE
                        /\ filePointer' = 0
                        /\ UNCHANGED <<device, writeLog>>
                /\ mbrBlock' = data
                /\ m_bytesWritten' = m_bytesTotal
       ELSE UNCHANGED <<device, filePointer, writeLog, success, mbrBlock, m_bytesWritten>>
    /\ wpc' = "close"
    /\ UNCHANGED <<src, srcPos, isPhysicalDrive, driveNumberOk, bytesPerSector,
                   openHandles, mbrSaved, totalBytesWritten, m_bytesTotal,
                   m_verifyHash, m_sourceHash, writeResult, corrupted,
                   verifyResult>>
    /\ UNCHANGED pvars

\* the failure path returning without closing the handle
WriteClose_KeepOnFailure ==
    /\ wpc = "close"
    /\ openHandles' = IF success THEN openHandles - 1 ELSE openHandles
    /\ wpc' = "post"
    /\ UNCHANGED <<src, srcPos, isPhysicalDrive, driveNumberOk, bytesPerSector,
                   device, filePointer, mbrBlock, mbrSaved, success,
                   totalBytesWritten, m_bytesTotal, m_bytesWritten,
                   m_verifyHash, m_sourceHash, writeLog, writeResult,
                   corrupted, verifyResult>>
    /\ UNCHANGED pvars

\* FlushFileBuffers, CloseHandle(deviceHandle), sourceFileObj.close()
WriteClose ==
    /\ wpc = "close"
    /\ openHandles' = openHandles - 1
    /\ wpc' = "post"
    /\ UNCHANGED <<src, srcPos, isPhysicalDrive, driveNumberOk, bytesPerSector,
                   device, filePointer, mbrBlock, mbrSaved, success,
                   totalBytesWritten, m_bytesTotal, m_bytesWritten,
                   m_verifyHash, m_sourceHash, writeLog, writeResult,
                   corrupted, verifyResult>>
    /\ UNCHANGED pvars

\* Post-write phase: rescan and assign with the disk utility when the drive
\* number is known, otherwise reopen the physical drive to unlock the volume.
\* reopened is whether CreateFileA returned a valid unlockHandle.
WritePost ==
    /\ wpc = "post"
    /\ \E reopened \in BOOLEAN :
        /\ reopened => (isPhysicalDrive /\ ~driveNumberOk)
        /\ IF reopened
           THEN openHandles' = openHandles + 1 /\ wpc' = "unlock"
           ELSE UNCHANGED openHandles /\ wpc' = "finish"
    /\ UNCHANGED <<src, srcPos, isPhysicalDrive, driveNumberOk, bytesPerSector,
                   device, filePointer, mbrBlock, mbrSaved, success,
                   totalBytesWritten, m_bytesTotal, m_bytesWritten,
                   m_verifyHash, m_sourceHash, writeLog, writeResult,
                   corrupted, verifyResult>>
    /\ UNCHANGED pvars

\* FSCTL_UNLOCK_VOLUME and CloseHandle(unlockHandle)
WriteUnlock ==
    /\ wpc = "unlock"
    /\ openHandles' = openHandles - 1
    /\ wpc' = "finish"
    /\ UNCHANGED <<src, srcPos, isPhysicalDrive, driveNumberOk, bytesPerSector,
                   device, filePointer, mbrBlock, mbrSaved, success,
                   totalBytesWritten, m_bytesTotal, m_bytesWritten,
                   m_verifyHash, m_sourceHash, writeLog, writeResult,
                   corrupted, verifyResult>>
    /\ UNCHANGED pvars

\* Stop the progress timer, store the digest on success, return success.
WriteFinish ==
    /\ wpc = "finish"
    /\ m_sourceHash' = IF success THEN Digest(m_verifyHash) ELSE m_sourceHash
    /\ writeResult' = IF success THEN "success" ELSE "failure"
    /\ wpc' = "done"
    /\ UNCHANGED <<src, srcPos, isPhysicalDrive, driveNumberOk, bytesPerSector,
                   device, filePointer, openHandles, mbrBlock, mbrSaved,
                   success, totalBytesWritten, m_bytesTotal, m_bytesWritten,
                   m_verifyHash, writeLog, corrupted, verifyResult>>
    /\ UNCHANGED pvars

\* ------------------------------------------------------------------------
\* verifyImage
\* ------------------------------------------------------------------------

\* the while loop of verifyImage: read up to VERIFY_BLOCK_SIZE bytes at the
\* current position until totalBytes were read or a read returns nothing
RECURSIVE VerifyLoop(_, _, _, _, _)
VerifyLoop(dev, pos, bytesVerified, totalBytes, hash) ==
    IF bytesVerified < totalBytes
    THEN LET bytesToRead == Min(VERIFY_BLOCK_SIZE, totalBytes - bytesVerified)
             buffer == DevRead(dev, pos, bytesToRead)
         IN  IF Len(buffer) <= 0 THEN hash
             ELSE VerifyLoop(dev, pos + Len(buffer), bytesVerified + Len(buffer),
                             totalBytes, hash \o buffer)
    ELSE hash

\* the digest verifyImage computes from the device
VerifiedHash(dev, bytesTotal) ==
    LET totalBytes == IF bytesTotal <= 0 THEN Len(dev) ELSE bytesTotal
        afterLoop == VerifyLoop(dev, VERIFY_BLOCK_SIZE, 0, totalBytes, <<>>)
        firstBlock == DevRead(dev, 0, Min(VERIFY_BLOCK_SIZE, totalBytes))
    IN  Digest(afterLoop \o firstBlock)

\* verifyImage(drive, sourceFile, expectedHash); opened and seekOk are the
\* results of deviceFile.open and deviceFile.seek(VERIFY_BLOCK_SIZE).
\* which return statement of verifyImage is taken: "success" returns true,
\* every other value returns false
VerifyOutcome(dev, sourceHash, bytesTotal, opened, seekOk) ==
    IF sourceHash = EmptyHash THEN "nohash"
    ELSE IF ~opened THEN "noopen"
    ELSE IF ~seekOk THEN "noseek"
    ELSE IF VerifiedHash(dev, bytesTotal) = sourceHash THEN "success"
    ELSE "mismatch"

Verify ==
    /\ wpc \in {"idle", "done"}
    /\ verifyResult = "none"
    /\ \E opened \in BOOLEAN, seekOk \in BOOLEAN :
        /\ opened \/ seekOk
        /\ verifyResult' = VerifyOutcome(device, m_sourceHash, m_bytesTotal,
                                         opened, seekOk)
    /\ UNCHANGED <<src, srcPos, isPhysicalDrive, driveNumberOk, bytesPerSector,
                   device, filePointer, openHandles, wpc, mbrBlock, mbrSaved,
                   success, totalBytesWritten, m_bytesTotal, m_bytesWritten,
                   m_verifyHash, m_sourceHash, writeLog, writeResult,
                   corrupted>>
    /\ UNCHANGED pvars

\* Environment: one byte of the written range of the device changes between
\* a successful write and the verification.
Corrupt ==
    /\ wpc = "done"
    /\ writeResult = "success"
    /\ corrupted = -1
    /\ verifyResult = "none"
    /\ \E i \in 0..(m_bytesTotal - 1) :
        /\ i < Len(device)
        /\ device' = [device EXCEPT ![i + 1] = 1 - device[i + 1]]
        /\ corrupted' = i
    /\ UNCHANGED <<src, srcPos, isPhysicalDrive, driveNumberOk, bytesPerSector,
                   filePointer, openHandles, wpc, mbrBlock, mbrSaved, success,
                   totalBytesWritten, m_bytesTotal, m_bytesWritten,
                   m_verifyHash, m_sourceHash, writeLog, writeResult,
                   verifyResult>>
    /\ UNCHANGED pvars

NextWrite ==
    \/ WriteOpen
    \/ WriteStash
    \/ WriteChunk
    \/ WriteMBR
    \/ WriteClose
    \/ WritePost
    \/ WriteUnlock
    \/ WriteFinish
    \/ Verify
    \/ Corrupt

SpecWrite == InitWrite /\ [][NextWrite]_vars

\* ------------------------------------------------------------------------
\* A further WRITE on the same helper
\* ------------------------------------------------------------------------

\* writeImageToDevice calls after the first
MaxEarlier == 1

\* A further writeImageToDevice call returns false at one of its first two
\* return statements: the source file cannot be opened, or every CreateFileA
\* attempt on the device has failed.  m_bytesTotal, m_sourceHash and the
\* device are as the call before left them.
WriteFailsEarly ==
    /\ wpc = "done"
    /\ verifyResult = "none"
    /\ Len(hist.earlier) < MaxEarlier
    /\ writeResult' = "failure"
    /\ hist' = [hist EXCEPT !.earlier = Append(@, writeResult)]
    /\ UNCHANGED <<src, srcPos, isPhysicalDrive, driveNumberOk, bytesPerSector,
                   device, filePointer, openHandles, wpc, mbrBlock, mbrSaved,
                   success, totalBytesWritten, m_bytesTotal, m_bytesWritten,
                   m_verifyHash, m_sourceHash, writeLog, corrupted,
                   verifyResult>>
    /\ UNCHANGED <<helper, conn, client, op, job, call>>

NextRewrite ==
    \/ NextWrite
    \/ WriteFailsEarly

SpecRewrite == InitWrite /\ [][NextRewrite]_vars

\* ------------------------------------------------------------------------
\* Protocol state as one value, so that a handler is a function of it
\* ------------------------------------------------------------------------
\* helper:  alive               the process runs
\*          quit                QCoreApplication::quit() was called
\*          verifying           the verifyImage calls that are suspended in
\*                              QCoreApplication::processEvents(), innermost
\*                              first
\*          timers              connections whose 5 s single-shot is armed
\*          backlog             connections the server holds for
\*                              nextPendingConnection()
\*          lastSentNow/Type    the function statics of sendProgressUpdate
\* conn[c]: used                the client has called connectToServer
\*          serverOpen          the helper's QLocalSocket is open
\*          slots               its readyRead / disconnected signals are
\*                              connected to the helper's slots
\*          disconnected        its disconnected() signal waits for the
\*                              helper's event loop
\*          srvBuf              bytes the client wrote and the helper has
\*                              not consumed
\*          srvArrived          how many of them arrived at the helper's
\*                              socket and were announced by readyRead();
\*                              the others are on their way
\*          clientOpen          the client's QLocalSocket is connected
\*          peerClosed          the client's socket has yet to notice that
\*                              the helper closed its end
\*          cliBuf, cliArrived  the same, helper to client
\* client[c]: pc                "idle" in the application's event loop,
\*                              "ensure" inside ensureHelperRunning,
\*                              "op" inside the wait loop of a run* call,
\*                              "shutdown" inside shutdownHelper,
\*                              "gone" once the application has ended
\*            m_helperProcess   holds the handle of the modelled helper
\*            m_eventTimer      the 100 ms timer of processPendingEvents runs
\*            sent              commands sent so far
\* op:      operation           the run* function that was called
\*          pc                  "idle" not connected, "ready" connected,
\*                              "pre" in runWriteToDrive before its loop,
\*                              "wait" in the wait loop, "done" returned
\*          timeout             m_operationTimeoutMs
\*          elapsed             m_operationTimer.elapsed()
\*          since               time since the command was submitted
\*          operationFailed     the local of runWriteToDrive
\*          result              what the call returned
\*          sent                sendCommand() has sent the command
\*          progress            progress frames the helper wrote
\*          tokenSent           the helper wrote a completion token
\*          tokenSeen           the completion token the client decoded
\*          timedOut            the call returned through its timeout branch
\*          sockError           the socket's errorOccurred() was delivered
\*          broken              the pipe was closed or the helper exited
\*                              while the call waited
\*          exitCode            exit code of the helper process, -1 if none
\*          command             run* calls that have sent their command
\*          answered            completion tokens the helper wrote: token n
\*                              is its reply to command n
\*          taken               completion tokens socketReadyRead consumed
\*          seenFor             the command in reply to which the helper
\*                              sent the token in tokenSeen, 0 if none
\* hist:    helloSent           connections on which the helper wrote HELLO
\*          helloDecoded        connections whose client decoded HELLO
\*          readyWritten        connections whose client wrote READY
\*          readyAccepted       where, and in which state, the helper took
\*                              READY as the handshake answer
\*          dispatched          the processCommand calls: the connection, the
\*                              state before, whether READY had been accepted
\*                              on that connection
\*          replaced            connections onNewConnection closed while open
\*          fragments           deliveries of a fragment so far
\*          serial              processCommand calls so far; the number of
\*                              a call is its id
\*          tokensWritten       completion tokens the helper wrote so far
\*          completed           the processCommand calls that returned or
\*                              threw: the connection the command came on,
\*                              whether that connection was still current
\*                              and open, how many tokens followed
\*          lateProgress        a progress frame was written for a command
\*                              whose completion token had been written
\*          earlier             what the writeImageToDevice calls before
\*                              the last one returned, in order
\*          commandIn           the states of the client in which
\*                              sendCommand wrote a command frame
\*          foreignGreeting     connections whose client was sent a string
\*                              by another process than the helper
\*          foreignAnswer       connections on which another process than
\*                              the client answered the greeting
\*          misgreeted          the receive steps in which a client waiting
\*                              for HELLO decoded another string: the
\*                              connection, the client's state after the step
\*          misanswered         the same for the helper waiting for READY,
\*                              and whether the step closed the connection
\*          foreignCommand      connections on which a test client sent a
\*                              string of its own as a command
\*          answered            the processCommand calls that returned: what
\*                              the command was, the function it was handed
\*                              to, the tokens written, the status, the
\*                              state afterwards
\*          splitReads          the receive steps that found the first part
\*                              only of a frame: the side, its state, the
\*                              bytes the step took from the pipe
\*          discarded           the receive steps that took bytes from the
\*                              pipe and dropped them: the side, its state
\*          progressTaken       how the Connected client took the progress
\*                              frames that arrived whole: the type, whether
\*                              the bytes were read as a string frame, the
\*                              signal emitted equals the frame
\*          lastFrame           type and now of the progress frame the helper
\*                              wrote last
\*          repeated            a progress frame was written with the type
\*                              and now of the frame written before it
\*          suppressed          a progress update with the type and now of
\*                              the frame written last was not written
\*          writes              the writeImageToDevice calls that opened
\*                              their device: the size of the source, the
\*                              <<now, total>> of the frames written, success
\*          timeouts            the handshake timeouts that moved the helper
\*                              to Error: the connection the single-shot
\*                              was armed for, the current connection
World == [helper |-> helper, conn |-> conn, client |-> client, hist |-> hist]

BecomesOp(w, o) ==
    /\ helper' = w.helper
    /\ conn' = w.conn
    /\ client' = w.client
    /\ hist' = w.hist
    /\ op' = o
    /\ UNCHANGED <<job, call>>
    /\ UNCHANGED wvars

Becomes(w) == BecomesOp(w, op)

\* the client whose ShellExecuteEx started the modelled helper process
Spawner == 1

\* ------------------------------------------------------------------------
\* DiskWriterHelper: state machine
\* ------------------------------------------------------------------------

\* changeState(newState) for every newState but Error
ChangeBasic(w, newState) ==
    IF w.helper.m_connectionState = newState THEN w
    ELSE [w EXCEPT !.helper.m_connectionState = newState,
                   !.helper.m_currentCommand =
                       IF newState \in {"Idle", "Connected", "Ready"}
                       THEN <<>> ELSE @]

\* m_clientConnection->close() on connection c: the helper's end is closed,
\* what it had not read is gone, the client's end will notice
CloseServerSocket(w, c) ==
    [w EXCEPT !.conn[c].serverOpen = FALSE,
              !.conn[c].disconnected = FALSE,
              !.conn[c].srvBuf = <<>>,
              !.conn[c].srvArrived = 0,
              !.conn[c].peerClosed = w.conn[c].clientOpen]

\* disconnect(m_clientConnection, readyRead / disconnected, this, ...)
DisconnectSlots(w, c) ==
    [w EXCEPT !.conn[c].slots = FALSE,
              !.conn[c].disconnected = FALSE]

resetState(w) ==
    LET c == w.helper.m_clientConnection
        w1 == IF c = 0 THEN w
              ELSE LET u == DisconnectSlots(w, c)
                       v == IF u.conn[c].serverOpen
                            THEN CloseServerSocket(u, c) ELSE u
                   IN  [v EXCEPT !.helper.m_clientConnection = 0]
        w2 == [w1 EXCEPT !.helper.m_currentCommand = <<>>]
    IN  ChangeBasic(w2, "Idle")

\* mutant: the helper stays after the reset
onClientDisconnected_NoQuit(w) == resetState(w)

\* m_daemonMode is true in every process that runs the pipe server
onClientDisconnected(w) ==
    [resetState(w) EXCEPT !.helper.quit = TRUE]

\* changeState(newState).  Entering Error closes the connection; close()
\* emits disconnected(), which is connected to onClientDisconnected: the
\* slot runs inside close() (sync) or, when written bytes are still
\* pending, from the event loop once the socket has finished closing.
changeState(w, newState, sync) ==
    IF w.helper.m_connectionState = newState THEN w
    ELSE IF newState # "Error" THEN ChangeBasic(w, newState)
    ELSE LET c == w.helper.m_clientConnection
             w1 == [w EXCEPT !.helper.m_connectionState = "Error"]
         IN  IF c # 0 /\ w1.conn[c].serverOpen
             THEN LET w2 == CloseServerSocket(w1, c)
                  IN  IF ~w2.conn[c].slots THEN w2
                      ELSE IF sync THEN onClientDisconnected(w2)
                      ELSE [w2 EXCEPT !.conn[c].disconnected = TRUE]
             ELSE w1

\* m_clientConnection->write(block): the bytes leave for the client's end
ServerWrite(w, c, bytes) ==
    IF w.conn[c].clientOpen
    THEN [w EXCEPT !.conn[c].cliBuf = @ \o bytes]
    ELSE w

sendCompletionStatus(w, status, sync) ==
    LET c == w.helper.m_clientConnection
    IN  IF c = 0 \/ ~w.conn[c].serverOpen
        THEN changeState(w, "Error", sync)
        ELSE ServerWrite([w EXCEPT !.hist.tokensWritten = @ + 1],
                         c, EncodeString(status))

\* mutant: no update is taken for a duplicate
DuplicateUpdate_Never(w, progressType, now) == FALSE

\* lastSentNow == now && lastSentType == progressType
DuplicateUpdate(w, progressType, now) ==
    w.helper.lastSentNow = now /\ w.helper.lastSentType = progressType

sendProgressUpdate(w, progressType, now, total) ==
    LET c == w.helper.m_clientConnection
        frame == <<progressType, now>>
    IN  IF c # 0 /\ w.conn[c].serverOpen
        THEN IF DuplicateUpdate(w, progressType, now)
             THEN [w EXCEPT !.hist.suppressed = @ \/ frame = w.hist.lastFrame]
             ELSE ServerWrite([w EXCEPT !.helper.lastSentNow = now,
                                        !.helper.lastSentType = progressType,
                                        !.hist.lastFrame = frame,
                                        !.hist.repeated =
                                            @ \/ frame = w.hist.lastFrame],
                              c, EncodeProgress(progressType, now, total))
        ELSE w

\* '"', ' ' and the backslash
Quote == 34
Space == 32
Backslash == 92

\* s without its first n characters: QString::mid(n)
Mid(s, n) == SubSeq(s, n + 1, Len(s))

\* parts.size() of the CUSTOMIZE and VERIFY parsers: a part is appended at
\* every closing quote, what stands outside quotes is skipped
QuotedParts(s) == Cardinality({i \in 1..Len(s) : s[i] = Quote}) \div 2

\* QRegularExpression("\"([^\"]*)\"\\s+\"([^\"]*)\"").match(s).hasMatch():
\* somewhere in s two quoted strings stand with only white space between
RegexHasMatch(s) ==
    \E i, j, k, l \in 1..Len(s) :
        /\ i < j /\ j + 1 < k /\ k < l
        /\ s[i] = Quote /\ s[j] = Quote /\ s[k] = Quote /\ s[l] = Quote
        /\ \A m \in (i + 1)..(j - 1) : s[m] # Quote
        /\ \A m \in (j + 1)..(k - 1) : s[m] = Space
        /\ \A m \in (k + 1)..(l - 1) : s[m] # Quote

\* parts.size() of the manual parser of WRITE, from character i on: n parts
\* so far, cur tells whether current is not empty
RECURSIVE ManualParts(_, _, _, _, _, _)
ManualParts(s, i, n, cur, inQuote, escapeNext) ==
    IF i > Len(s) THEN (IF cur THEN n + 1 ELSE n)
    ELSE LET c == s[i]
         IN  IF escapeNext THEN ManualParts(s, i + 1, n, TRUE, inQuote, FALSE)
             ELSE IF c = Backslash
             THEN ManualParts(s, i + 1, n, cur, inQuote, TRUE)
             ELSE IF c = Quote
             THEN IF inQuote /\ cur
                  THEN ManualParts(s, i + 1, n + 1, FALSE, FALSE, FALSE)
                  ELSE IF ~inQuote /\ n = 0
                  THEN ManualParts(s, i + 1, n, FALSE, TRUE, FALSE)
                  ELSE ManualParts(s, i + 1, n, cur, ~inQuote, FALSE)
             ELSE IF inQuote THEN ManualParts(s, i + 1, n, TRUE, inQuote, FALSE)
             ELSE IF c = Space /\ cur
             THEN ManualParts(s, i + 1, n + 1, FALSE, inQuote, FALSE)
             ELSE IF c # Space
             THEN ManualParts(s, i + 1, n, TRUE, inQuote, FALSE)
             ELSE ManualParts(s, i + 1, n, cur, inQuote, FALSE)

\* mutant: a string that is no command is taken for SHUTDOWN
Handler_UnknownQuits(command) ==
    IF StartsWith(command, PrefixFORMAT) THEN "formatDrive"
    ELSE IF StartsWith(command, PrefixWRITE) THEN "writeImageToDevice"
    ELSE IF StartsWith(command, PrefixCUSTOMIZE) THEN "customizeImage"
    ELSE IF StartsWith(command, PrefixVERIFY) THEN "verifyImage"
    ELSE "quit"

\* the function processCommand(command) hands the command to, "none" when
\* it returns false by itself
Handler(command) ==
    IF StartsWith(command, PrefixFORMAT) THEN "formatDrive"
    ELSE IF StartsWith(command, PrefixWRITE)
    THEN LET args == Mid(command, Len(PrefixWRITE))
         IN  IF RegexHasMatch(args) THEN "writeImageToDevice"
             ELSE IF ManualParts(args, 1, 0, FALSE, FALSE, FALSE) = 2
             THEN "writeImageToDevice"
             ELSE "none"
    ELSE IF StartsWith(command, PrefixCUSTOMIZE)
    THEN IF QuotedParts(Mid(command, Len(PrefixCUSTOMIZE))) = 7
         THEN "customizeImage" ELSE "none"
    ELSE IF StartsWith(command, PrefixVERIFY)
    THEN IF QuotedParts(Mid(command, Len(PrefixVERIFY))) = 3
         THEN "verifyImage" ELSE "none"
    ELSE IF command = SHUTDOWN THEN "quit"
    ELSE "none"

\* the ways a processCommand(command) call can go: it returns true or false,
\* throws, calls quit() and returns true, or (verifyImage) reaches its read
\* loop with a block to read, where it hands control to the event loop after
\* every block.  writeImageToDevice returns false before it has opened the
\* device ("false"), after it ("falseOpened"), or when the write of the
\* stashed MBR block has failed ("falseAtMBR").
ProcessOutcomes(command) ==
    CASE Handler(command) = "none" -> {"false"}
      [] Handler(command) = "quit" -> {"quit"}
      [] Handler(command) = "verifyImage" -> {"false", "throw", "loop"}
      [] Handler(command) = "writeImageToDevice" ->
            {"true", "false", "throw", "falseOpened", "falseAtMBR"}
      [] OTHER -> {"true", "false", "throw"}

\* the command has none of the five verbs
UnknownVerb(command) ==
    /\ ~StartsWith(command, PrefixFORMAT)
    /\ ~StartsWith(command, PrefixWRITE)
    /\ ~StartsWith(command, PrefixCUSTOMIZE)
    /\ ~StartsWith(command, PrefixVERIFY)
    /\ command # SHUTDOWN

\* s is n arguments in double quotes, one space between them
RECURSIVE QuotedList(_, _)
QuotedList(s, n) ==
    IF n = 0 THEN s = <<>>
    ELSE /\ Len(s) >= 2
         /\ s[1] = Quote
         /\ \E j \in 2..Len(s) :
               /\ s[j] = Quote
               /\ \A m \in 2..(j - 1) : s[m] # Quote
               /\ IF n = 1 THEN j = Len(s)
                  ELSE /\ j + 1 < Len(s)
                       /\ s[j + 1] = Space
                       /\ QuotedList(Mid(s, j + 1), n - 1)

\* the command follows the command grammar: a verb and its number of
\* arguments, each in double quotes
WellFormed(command) ==
    \/ StartsWith(command, PrefixFORMAT)
          /\ QuotedList(Mid(command, Len(PrefixFORMAT)), 1)
    \/ StartsWith(command, PrefixWRITE)
          /\ QuotedList(Mid(command, Len(PrefixWRITE)), 2)
    \/ StartsWith(command, PrefixCUSTOMIZE)
          /\ QuotedList(Mid(command, Len(PrefixCUSTOMIZE)), 7)
    \/ StartsWith(command, PrefixVERIFY)
          /\ QuotedList(Mid(command, Len(PrefixVERIFY)), 3)
    \/ command = SHUTDOWN

\* mutant: the completion status is sent twice
Complete_TokenTwice(w, ok, sync) ==
    LET status == IF ok THEN SUCCESS ELSE FAILURE
    IN  changeState(sendCompletionStatus(sendCompletionStatus(w, status, sync),
                                         status, sync),
                    "Ready", sync)

\* the tail of the try block: completion status, then back to Ready
Complete(w, ok, sync) ==
    changeState(sendCompletionStatus(w, IF ok THEN SUCCESS ELSE FAILURE, sync),
                "Ready", sync)

\* history of one processCommand call: before is the state when the call
\* ended, after the state once the handler has sent what it sends
Finished(before, after, from, id) ==
    [after EXCEPT !.hist.completed = @ \cup
        {[id |-> id,
          conn |-> from,
          open |-> /\ before.helper.m_clientConnection = from
                   /\ before.conn[from].serverOpen,
          tokens |-> after.hist.tokensWritten - before.hist.tokensWritten]}]

\* the values of now in the progress updates of a writeImageToDevice call
\* that has opened its device, in order: two at the start, one after the
\* write of the stashed MBR block, one on success
WriteUpdates(outcome) ==
    <<0, 0>>
    \o (IF outcome \in {"falseAtMBR", "true"} THEN <<SourceSize>> ELSE <<>>)
    \o (IF outcome = "true" THEN <<SourceSize>> ELSE <<>>)

\* sendProgressUpdate(WriteProgress, now, m_bytesTotal) writes a frame
WritesFrame(w, now) ==
    /\ w.helper.m_clientConnection # 0
    /\ w.conn[w.helper.m_clientConnection].serverOpen
    /\ ~DuplicateUpdate(w, WriteProgress, now)

RECURSIVE SendUpdates(_, _, _)
\* the updates nows made one after the other; frames collects <<now, total>>
\* of those that were written
SendUpdates(w, nows, frames) ==
    IF nows = <<>> THEN [w |-> w, frames |-> frames]
    ELSE SendUpdates(sendProgressUpdate(w, WriteProgress, Head(nows), SourceSize),
                     Tail(nows),
                     IF WritesFrame(w, Head(nows))
                     THEN Append(frames, <<Head(nows), SourceSize>>)
                     ELSE frames)

\* writeImageToDevice as the client of the helper sees it: the progress
\* frames of the call
writeImageToDevice(w, outcome) ==
    IF outcome \in {"falseOpened", "falseAtMBR", "true"}
    THEN LET r == SendUpdates(w, WriteUpdates(outcome), <<>>)
         IN  [r.w EXCEPT !.hist.writes = @ \cup
                 {[total |-> SourceSize,
                   frames |-> r.frames,
                   success |-> outcome = "true"]}]
    ELSE w

\* one iteration of the read loop of verifyImage, up to processEvents()
VerifyIteration(w) ==
    LET top == Head(w.helper.verifying)
        w1 == sendProgressUpdate(w, VerifyProgress, top.chunks + 1, MaxVerifyChunks)
    IN  [w1 EXCEPT !.helper.verifying =
                       <<[top EXCEPT !.chunks = @ + 1]>> \o Tail(@),
                   !.hist.lateProgress =
                       @ \/ \E t \in w.hist.completed : t.id = top.id]

\* onClientDataReceived in state Ready, once a command string was decoded
Dispatch(w, command, outcome, sync) ==
    LET c == w.helper.m_clientConnection
        w1 == ChangeBasic([w EXCEPT !.helper.m_currentCommand = command],
                          "Processing")
        id == w.hist.serial + 1
        w2 == [w1 EXCEPT !.hist.serial = id,
                         !.hist.dispatched = @ \cup
                   {[conn |-> c,
                     state |-> w.helper.m_connectionState,
                     handshaken |-> \E a \in w.hist.readyAccepted : a.conn = c]}]
        w3 == CASE outcome = "loop" ->
                [w2 EXCEPT !.helper.verifying =
                      <<[command |-> command, chunks |-> 0,
                        conn |-> c, id |-> id]>> \o @]
          [] outcome = "throw" ->
                Finished(w2,
                    changeState(sendCompletionStatus(w2, FAILURE, sync),
                                "Error", sync), c, id)
          [] outcome = "quit" ->
                Finished(w2,
                    Complete([w2 EXCEPT !.helper.quit = TRUE], TRUE, sync),
                    c, id)
          [] Handler(command) = "writeImageToDevice" ->
                LET w2w == writeImageToDevice(w2, outcome)
                IN  Finished(w2w, Complete(w2w, outcome = "true", sync), c, id)
          [] OTHER -> Finished(w2, Complete(w2, outcome = "true", sync), c, id)
    IN  IF outcome \in {"loop", "throw"} THEN w3
        ELSE [w3 EXCEPT !.hist.answered = @ \cup
                 {[unknownVerb |-> UnknownVerb(command),
                   wellFormed |-> WellFormed(command),
                   handler |-> Handler(command),
                   tokens |-> w3.hist.tokensWritten - w.hist.tokensWritten,
                   success |-> outcome \in {"true", "quit"},
                   after |-> w3.helper.m_connectionState]}]

\* onNewConnection(): the previous connection, if any, is let go
ClosePrevious(w) ==
    LET old == w.helper.m_clientConnection
    IN  IF old = 0 THEN w
        ELSE LET u == DisconnectSlots(w, old)
             IN  IF u.conn[old].serverOpen
                 THEN [CloseServerSocket(u, old)
                          EXCEPT !.hist.replaced = @ \cup {old}]
                 ELSE u

\* onNewConnection(): the next pending connection becomes the current one
\* and is greeted.  write() on the socket just accepted takes all the bytes.
AcceptNext(w) ==
    LET c == Head(w.helper.backlog)
        w2 == [w EXCEPT !.helper.m_clientConnection = c,
                        !.helper.backlog = Tail(@),
                        !.conn[c].serverOpen = TRUE,
                        !.conn[c].slots = TRUE]
        w3 == ChangeBasic(ChangeBasic(w2, "Connected"), "HandshakeSending")
        w4 == ServerWrite(w3, c, EncodeString(HELLO))
    IN  [ChangeBasic(w4, "HandshakeReceiving")
            EXCEPT !.helper.timers = @ \cup {c},
                   !.hist.helloSent = @ \cup {c}]

\* mutant: the previous connection is kept open and connected to the slots
onNewConnection_KeepPrevious(w) == AcceptNext(w)

onNewConnection(w) == AcceptNext(ClosePrevious(w))

\* onClientDataReceived() when the first k bytes of what the client wrote
\* have arrived
onClientDataReceived(w, k, outcome, sync) ==
    LET c == w.helper.m_clientConnection
        arrived == SubSeq(w.conn[c].srvBuf, 1, k)
        later == SubSeq(w.conn[c].srvBuf, k + 1, Len(w.conn[c].srvBuf))
        d == DecodeString(arrived)
        state == w.helper.m_connectionState
        taken == IF state \in {"HandshakeReceiving", "Ready"}
                 THEN k - Len(d.rest) ELSE k
        w0 == [w EXCEPT !.hist.fragments = IF later = <<>> THEN @ ELSE @ + 1,
                        !.hist.splitReads =
                            IF later # <<>> /\ d.status = "ReadPastEnd"
                            THEN @ \cup {[side |-> "helper", state |-> state,
                                          consumed |-> taken]}
                            ELSE @]
        w1 == [w0 EXCEPT !.conn[c].srvBuf = d.rest \o later,
                         !.conn[c].srvArrived = Len(d.rest)]
        refused == changeState(w1, "Error", sync)
    IN  CASE state = "HandshakeReceiving" ->
                IF d.status = "Ok" /\ d.str = READY
                THEN [ChangeBasic(w1, "Ready")
                         EXCEPT !.hist.readyAccepted = @ \cup
                                    {[conn |-> c, state |-> state]}]
                ELSE IF d.status = "Ok"
                THEN [refused EXCEPT !.hist.misanswered = @ \cup
                         {[conn |-> c,
                           after |-> refused.helper.m_connectionState,
                           closed |-> ~refused.conn[c].serverOpen]}]
                ELSE refused
          [] state = "Ready" ->
                IF d.status = "Ok"
                THEN Dispatch(w1, d.str, outcome, sync)
                ELSE [w1 EXCEPT !.hist.discarded = @ \cup
                         {[side |-> "helper", state |-> state]}]
          [] OTHER -> [w0 EXCEPT !.conn[c].srvBuf = later,
                                 !.conn[c].srvArrived = 0,
                                 !.hist.discarded = @ \cup
                                     {[side |-> "helper", state |-> state]}]

\* the process ends: every pipe end it held is closed
HelperGone(w) ==
    [w EXCEPT !.helper.alive = FALSE,
              !.helper.backlog = <<>>,
              !.helper.timers = {},
              !.conn = [c \in Conns |->
                  [w.conn[c] EXCEPT !.serverOpen = FALSE,
                               !.slots = FALSE,
                               !.disconnected = FALSE,
                               !.srvBuf = <<>>,
                               !.srvArrived = 0,
                               !.peerClosed = @ \/ w.conn[c].clientOpen]]]

\* readyRead(): more bytes have arrived.  Of len unconsumed bytes the first
\* arrived were announced before; now all of them have arrived, or one
\* fragment more.
Arrivals(arrived, len) ==
    IF len <= arrived THEN {}
    ELSE {len} \cup {arrived + f : f \in {g \in Fragments :
                          arrived + g < len /\ hist.fragments < MaxFragments}}

\* the helper's event loop dispatches: QCoreApplication::exec() until quit()
\* was called, and every processEvents() call of a suspended verifyImage
LoopRunning ==
    /\ helper.alive
    /\ IF helper.verifying = <<>>
       THEN ~helper.quit
       ELSE Head(helper.verifying).chunks > 0

NewConnection ==
    /\ LoopRunning
    /\ helper.backlog # <<>>
    /\ Becomes(onNewConnection(World))

ClientDataReceived ==
    /\ LoopRunning
    /\ helper.m_clientConnection # 0
    /\ LET c == helper.m_clientConnection
       IN  /\ conn[c].slots
           /\ conn[c].serverOpen
           /\ \E k \in Arrivals(conn[c].srvArrived, Len(conn[c].srvBuf)),
                 sync \in BOOLEAN :
              \E outcome \in ProcessOutcomes(
                                DecodeString(SubSeq(conn[c].srvBuf, 1, k)).str) :
                 Becomes(onClientDataReceived(World, k, outcome, sync))

\* the disconnected() signal of connection c reaches the event loop
ClientDisconnected ==
    /\ LoopRunning
    /\ \E c \in Conns :
        /\ conn[c].slots
        /\ conn[c].disconnected
        /\ Becomes(onClientDisconnected(
               IF conn[c].serverOpen
               THEN CloseServerSocket(World, c)
               ELSE [World EXCEPT !.conn[c].disconnected = FALSE]))

\* the single-shot armed by onNewConnection for connection t fires
HandshakeTimeout ==
    /\ LoopRunning
    /\ \E t \in helper.timers, sync \in BOOLEAN :
        LET w == [World EXCEPT !.helper.timers = @ \ {t}]
        IN  Becomes(IF helper.m_connectionState = "HandshakeReceiving"
                    THEN [changeState(w, "Error", sync)
                             EXCEPT !.hist.timeouts = @ \cup
                                 {[armedFor |-> t,
                                   conn |-> helper.m_clientConnection]}]
                    ELSE w)

\* verifyImage reads the next block, reports it and calls processEvents()
VerifyChunk ==
    /\ helper.alive
    /\ helper.verifying # <<>>
    /\ Head(helper.verifying).chunks < MaxVerifyChunks
    /\ Becomes(VerifyIteration(World))

\* verifyImage leaves its loop, compares the hashes and returns ok; the
\* suspended onClientDataReceived call finishes its try block
VerifyEnd ==
    /\ helper.alive
    /\ helper.verifying # <<>>
    /\ Head(helper.verifying).chunks > 0
    /\ \E ok \in BOOLEAN :
        LET w == [World EXCEPT !.helper.verifying = Tail(@)]
        IN  Becomes(Finished(w, Complete(w, ok, FALSE),
                             Head(helper.verifying).conn,
                             Head(helper.verifying).id))

\* QCoreApplication::exec() returns after quit(), main returns
HelperExit ==
    /\ helper.alive
    /\ helper.quit
    /\ helper.verifying = <<>>
    /\ Becomes(HelperGone(World))

\* ------------------------------------------------------------------------
\* ElevationHelper (the client)
\* ------------------------------------------------------------------------

InBacklog(w, c) == \E i \in 1..Len(w.helper.backlog) : w.helper.backlog[i] = c

\* m_socket->disconnectFromServer() / close(): the client's end is closed,
\* the helper's end will notice
ClientCloseSocket(w, c) ==
    IF ~w.conn[c].clientOpen THEN w
    ELSE [w EXCEPT !.conn[c].clientOpen = FALSE,
                   !.conn[c].peerClosed = FALSE,
                   !.conn[c].cliBuf = <<>>,
                   !.conn[c].cliArrived = 0,
                   !.conn[c].disconnected =
                       @ \/ w.conn[c].serverOpen \/ InBacklog(w, c)]

\* m_socket->write(block): the bytes leave for the helper's end
ClientWrite(w, c, bytes) ==
    IF w.conn[c].serverOpen \/ InBacklog(w, c)
    THEN [w EXCEPT !.conn[c].srvBuf = @ \o bytes]
    ELSE w

\* ElevationHelper::changeState
clientChangeState(w, c, newState) ==
    IF w.client[c].m_connectionState = newState THEN w
    ELSE LET w1 == [w EXCEPT
                      !.client[c].m_connectionState = newState,
                      !.client[c].m_operationComplete =
                          IF newState = "Disconnected" THEN FALSE ELSE @,
                      !.client[c].m_eventTimer =
                          IF newState = "Connected" THEN TRUE
                          ELSE IF newState \in {"Disconnected", "Error"} THEN FALSE
                          ELSE @]
         IN  IF newState \in {"Disconnected", "Error"}
             THEN ClientCloseSocket(w1, c)
             ELSE w1

\* the errors a pipe that broke reports: the code QLocalSocket makes of the
\* system's error is PeerClosedError for a broken pipe and
\* UnknownSocketError for the others
SocketErrors == {"PeerClosedError", "UnknownSocketError"}

\* handleSocketError(socketError), the slot of errorOccurred():
\* PeerClosedError is ignored, ServerNotFoundError is ignored outside
\* Connected, any other error changes the state to Error in Connecting,
\* HandshakeSending and HandshakeReceiving only
handleSocketError(w, c, socketError) ==
    LET state == w.client[c].m_connectionState
    IN  IF /\ socketError # "PeerClosedError"
           /\ ~(socketError = "ServerNotFoundError" /\ state # "Connected")
           /\ state \in {"Connecting", "HandshakeSending", "HandshakeReceiving"}
        THEN clientChangeState(w, c, "Error")
        ELSE w

\* processNextMessage() as socketReadyRead calls it, in HandshakeReceiving
\* and in Connected; the result is the returned bool
processNextMessage(w, c) ==
    IF w.client[c].m_messageQueue = <<>> THEN [w |-> w, result |-> FALSE]
    ELSE LET messageData == Head(w.client[c].m_messageQueue)
             w1 == [w EXCEPT !.client[c].m_messageQueue = Tail(@)]
             d == DecodeString(messageData)
             state == w.client[c].m_connectionState
         IN  CASE state = "HandshakeReceiving" ->
                    IF d.status = "Ok" /\ d.str = HELLO
                    THEN [w |-> [w1 EXCEPT !.hist.helloDecoded = @ \cup {c}],
                          result |-> TRUE]
                    ELSE [w |-> w1, result |-> FALSE]
               [] state = "Connected" ->
                    IF d.status = "Ok" /\ d.str \in {SUCCESS, FAILURE}
                    THEN [w |-> [w1 EXCEPT !.client[c].m_operationComplete = TRUE],
                          result |-> TRUE]
                    ELSE [w |-> w1,
                          result |-> DecodeProgress(messageData).status = "Ok"]
               [] OTHER -> [w |-> w1, result |-> FALSE]

\* mutant: READY is written whatever the greeting was
HandshakeStep_Unchecked(w, c) ==
    LET r == processNextMessage(w, c)
        w1 == clientChangeState(r.w, c, "HandshakeSending")
        w2 == ClientWrite(w1, c, EncodeString(READY))
        w3 == [w2 EXCEPT !.hist.readyWritten = @ \cup {c}]
    IN  clientChangeState(w3, c, "Connected")

\* socketReadyRead() in state HandshakeReceiving, after readAll() has put
\* the bytes on the message queue
HandshakeStep(w, c) ==
    LET r == processNextMessage(w, c)
    IN  IF r.result
        THEN LET w1 == clientChangeState(r.w, c, "HandshakeSending")
                 w2 == ClientWrite(w1, c, EncodeString(READY))
                 w3 == [w2 EXCEPT !.hist.readyWritten = @ \cup {c}]
             IN  clientChangeState(w3, c, "Connected")
        ELSE clientChangeState(r.w, c, "Error")

\* socketReadyRead() when the first k bytes of what the helper wrote have
\* arrived
socketReadyRead(w, c, k) ==
    LET buf == SubSeq(w.conn[c].cliBuf, 1, k)
        later == SubSeq(w.conn[c].cliBuf, k + 1, Len(w.conn[c].cliBuf))
        d == DecodeString(buf)
        state == w.client[c].m_connectionState
        consumed == IF state = "Connected" /\ d.status = "Ok"
                    THEN k - Len(d.rest) ELSE k
        w00 == [w EXCEPT !.hist.fragments = IF later = <<>> THEN @ ELSE @ + 1,
                        !.hist.splitReads =
                            IF later # <<>> /\ d.status = "ReadPastEnd"
                            THEN @ \cup {[side |-> "client", state |-> state,
                                          consumed |-> consumed]}
                            ELSE @]
        sent == DecodeProgress(buf)
        taken == [progressType |-> sent.progressType,
                  asString |-> d.status = "Ok",
                  exact |-> /\ d.status # "Ok"
                            /\ ProgressSignal(sent) =
                                   <<sent.progressType, sent.now, sent.total>>]
        w0 == IF state = "Connected" /\ ProgressFrameAhead(buf)
              THEN [w00 EXCEPT !.hist.progressTaken = @ \cup {taken}]
              ELSE w00
        readAll == [w0 EXCEPT !.conn[c].cliBuf = later,
                              !.conn[c].cliArrived = 0]
        queued == [readAll EXCEPT !.client[c].m_messageQueue = Append(@, buf)]
    IN  CASE state = "Connected" ->
                IF d.status = "Ok"
                THEN [w0 EXCEPT !.conn[c].cliBuf = d.rest \o later,
                                !.conn[c].cliArrived = Len(d.rest),
                                !.client[c].m_operationComplete =
                                    @ \/ d.str \in {SUCCESS, FAILURE}]
                ELSE LET r == processNextMessage(queued, c)
                     IN  IF r.result /\ Len(buf) = 20 THEN r.w
                         ELSE [r.w EXCEPT !.hist.discarded = @ \cup
                                  {[side |-> "client", state |-> state]}]
          [] state = "HandshakeReceiving" ->
                LET after == HandshakeStep(queued, c)
                    first == DecodeString(Head(queued.client[c].m_messageQueue))
                IN  IF first.status = "Ok" /\ first.str # HELLO
                    THEN [after EXCEPT !.hist.misgreeted = @ \cup
                             {[conn |-> c,
                               after |-> after.client[c].m_connectionState]}]
                    ELSE after
          [] state \in {"HandshakeSending", "Connecting"} -> queued
          [] OTHER -> [readAll EXCEPT !.hist.discarded = @ \cup
                          {[side |-> "client", state |-> state]}]

\* TerminateProcess(m_helperProcess, ...)
TerminateHelper(w, c) ==
    LET w1 == [w EXCEPT !.client[c].m_helperProcess = FALSE]
    IN  IF w.client[c].m_helperProcess /\ w.helper.alive
        THEN HelperGone(w1) ELSE w1

\* ensureHelperRunning() from Disconnected or Error, up to its wait for the
\* helper's greeting.  The helper is started and connectToServer is tried up
\* to 50 times; reached tells whether one attempt connected.
EnsureHelperRunning ==
    \E c \in Conns, reached \in BOOLEAN :
        /\ client[c].pc = "idle"
        /\ client[c].m_connectionState \in {"Disconnected", "Error"}
        /\ ~conn[c].used
        /\ \A earlier \in Conns : earlier < c => conn[earlier].used
        /\ reached => helper.alive
        /\ LET w1 == [clientChangeState(World, c, "Connecting")
                         EXCEPT !.client[c].m_messageQueue = <<>>,
                                !.client[c].m_helperProcess = (c = Spawner),
                                !.conn[c].used = TRUE]
           IN  IF reached
               THEN Becomes([clientChangeState(w1, c, "HandshakeReceiving")
                                EXCEPT !.conn[c].clientOpen = TRUE,
                                       !.helper.backlog = Append(@, c),
                                       !.client[c].pc = "ensure"])
               ELSE Becomes(clientChangeState(TerminateHelper(w1, c), c, "Error"))

\* ensureHelperRunning(): ten waitForReadyRead(500) calls in a row returned
\* false
HandshakeWaitExpired ==
    \E c \in Conns :
        /\ client[c].pc = "ensure"
        /\ client[c].m_connectionState # "Connected"
        /\ Becomes([clientChangeState(
                       TerminateHelper(ClientCloseSocket(World, c), c), c, "Error")
                    EXCEPT !.client[c].pc = "idle"])

\* the socket's readyRead() reaches the client: from its event loop, from
\* waitForReadyRead in ensureHelperRunning, or from processEvents in the wait
\* loop of a run* call.  ensureHelperRunning returns once the state is
\* Connected.
SocketReadyRead ==
    \E c \in Conns :
        /\ conn[c].clientOpen
        /\ client[c].pc # "shutdown"
        /\ \E k \in Arrivals(conn[c].cliArrived, Len(conn[c].cliBuf)) :
            LET w == socketReadyRead(World, c, k)
            IN  Becomes(IF client[c].pc = "ensure"
                           /\ w.client[c].m_connectionState = "Connected"
                        THEN [w EXCEPT !.client[c].pc = "idle"]
                        ELSE w)

\* mutant: a run* call goes on in every state
validateStateForOperation_Skipped(w, c) == TRUE

\* validateStateForOperation() lets the call go on.  In Disconnected and in
\* Error it calls ensureHelperRunning() first, which returns true only in
\* Connected: that is EnsureHelperRunning, followed by the call.
validateStateForOperation(w, c) ==
    w.client[c].m_connectionState = "Connected"

\* sendCommand(command): the frame is written when the socket is open
sendCommand(w, c, command) ==
    IF w.conn[c].clientOpen
    THEN ClientWrite([w EXCEPT !.hist.commandIn =
                                   @ \cup {w.client[c].m_connectionState}],
                     c, EncodeString(command))
    ELSE w

\* runFormatDrive / runVerifyImage up to the wait loop
RunOperation ==
    \E c \in Conns, cmd \in Commands :
        /\ client[c].pc = "idle"
        /\ validateStateForOperation(World, c)
        /\ client[c].sent < MaxCmds
        /\ LET w1 == [World EXCEPT !.client[c].m_operationComplete = FALSE,
                                   !.client[c].sent = @ + 1]
           IN  IF conn[c].clientOpen
               THEN Becomes([sendCommand(w1, c, cmd)
                                EXCEPT !.client[c].pc = "op"])
               ELSE Becomes(w1)

\* the wait loop of a run* call ends: m_operationComplete is set, or the
\* operation timer ran out
OperationReturns ==
    \E c \in Conns :
        /\ client[c].pc = "op"
        /\ Becomes([World EXCEPT !.client[c].pc = "idle"])

\* processPendingEvents(), every 100 ms while m_eventTimer runs: acts when
\* the helper process has exited
processPendingEvents(w, c) ==
    IF w.client[c].m_helperProcess /\ ~w.helper.alive
    THEN [w EXCEPT !.client[c].m_eventTimer = FALSE,
                   !.client[c].m_operationComplete = TRUE,
                   !.client[c].m_connectionState = "Disconnected",
                   !.client[c].m_helperProcess = FALSE]
    ELSE w

ProcessPendingEvents ==
    \E c \in Conns :
        /\ client[c].pc \in {"idle", "op"}
        /\ client[c].m_eventTimer
        /\ client[c].m_helperProcess
        /\ ~helper.alive
        /\ Becomes(processPendingEvents(World, c))

\* shutdownHelper() from the TerminateProcess call on
ShutdownTail(w, c) ==
    [ClientCloseSocket(TerminateHelper(w, c), c)
        EXCEPT !.client[c].m_connectionState = "Disconnected",
               !.client[c].pc = "idle"]

\* shutdownHelper(): all of it when no SHUTDOWN is sent, else up to the
\* msleep(500) that follows sendCommand
ShutdownHelper ==
    \E c \in Conns :
        /\ client[c].pc = "idle"
        /\ conn[c].used
        /\ client[c].m_connectionState # "Disconnected"
        /\ Becomes(IF client[c].m_connectionState = "Connected"
                       /\ conn[c].clientOpen
                    THEN [sendCommand(World, c, SHUTDOWN)
                             EXCEPT !.client[c].pc = "shutdown"]
                    ELSE ShutdownTail(World, c))

\* shutdownHelper() after the msleep
ShutdownFinish ==
    \E c \in Conns :
        /\ client[c].pc = "shutdown"
        /\ Becomes(ShutdownTail(World, c))

\* the client's socket notices that the helper closed its end; the
\* PeerClosedError is ignored by handleSocketError
PeerClosed ==
    \E c \in Conns :
        /\ conn[c].clientOpen
        /\ conn[c].peerClosed
        /\ client[c].pc # "shutdown"
        /\ Becomes([World EXCEPT !.conn[c].clientOpen = FALSE,
                                 !.conn[c].peerClosed = FALSE,
                                 !.conn[c].cliBuf = <<>>,
                                 !.conn[c].cliArrived = 0])

\* ------------------------------------------------------------------------
\* The protocol specification.  The device state is the one of a helper
\* that has not written yet.
\* ------------------------------------------------------------------------
Init ==
    /\ InitWrite
    /\ bytesPerSector = 2 * MBR_SIZE
    /\ device = Zeros(BUFFER_SIZE)

Next ==
    \/ NewConnection
    \/ ClientDataReceived
    \/ ClientDisconnected
    \/ HandshakeTimeout
    \/ VerifyChunk
    \/ VerifyEnd
    \/ HelperExit
    \/ EnsureHelperRunning
    \/ HandshakeWaitExpired
    \/ SocketReadyRead
    \/ RunOperation
    \/ OperationReturns
    \/ ProcessPendingEvents
    \/ ShutdownHelper
    \/ ShutdownFinish
    \/ PeerClosed

Spec == Init /\ [][Next]_vars

\* ------------------------------------------------------------------------
\* The connection's life without the client's run* and shutdown calls,
\* with a helper that makes progress: its event loop delivers a signal that
\* stays pending, verifyImage reads its next block or leaves its loop, and
\* main returns once exec() was told to quit.  Nothing is assumed of the
\* clients.
\* ------------------------------------------------------------------------
HelperStep ==
    \/ NewConnection
    \/ ClientDataReceived
    \/ ClientDisconnected
    \/ HandshakeTimeout
    \/ VerifyChunk
    \/ VerifyEnd
    \/ HelperExit

\* the application ends while a run* call waits (it is closed, or it
\* crashes): the system closes its end of the pipe
ClientTerminates ==
    \E c \in Conns :
        /\ client[c].pc = "op"
        /\ Becomes([ClientCloseSocket(World, c) EXCEPT !.client[c].pc = "gone"])

NextLive ==
    \/ HelperStep
    \/ ClientTerminates
    \/ EnsureHelperRunning
    \/ HandshakeWaitExpired
    \/ SocketReadyRead
    \/ RunOperation
    \/ PeerClosed

\* HelperStep can be taken: the guards of its seven actions
HelperEnabled ==
    \/ helper.alive /\ helper.quit /\ helper.verifying = <<>>
    \/ helper.alive /\ helper.verifying # <<>>
    \/ LoopRunning /\ helper.backlog # <<>>
    \/ LoopRunning /\ helper.timers # {}
    \/ LoopRunning /\ \E c \in Conns : conn[c].slots /\ conn[c].disconnected
    \/ /\ LoopRunning
       /\ helper.m_clientConnection # 0
       /\ LET c == helper.m_clientConnection
          IN  /\ conn[c].slots
              /\ conn[c].serverOpen
              /\ Arrivals(conn[c].srvArrived, Len(conn[c].srvBuf)) # {}

\* weak fairness of HelperStep, written with its enabling condition, and of
\* the return of main
HelperFairness ==
    /\ WF_vars(HelperExit)
    /\ \/ []<>(~HelperEnabled)
       \/ []<><<HelperStep>>_vars

SpecLive == Init /\ [][NextLive]_vars /\ HelperFairness

\* ------------------------------------------------------------------------
\* The handshake with a process at the other end of the pipe that does not
\* keep to the protocol
\* ------------------------------------------------------------------------

\* "NOPE"
NOPE == <<78, 79, 80, 69>>

\* strings a process may send where token is expected
OtherThan(token) == {HELLO, READY, NOPE} \ {token}

\* the server that took the client's connection sends something else than
\* HELLO before the helper greets
ForeignGreeting ==
    \E c \in Conns, s \in OtherThan(HELLO) :
        /\ conn[c].clientOpen
        /\ InBacklog(World, c)
        /\ c \notin hist.foreignGreeting
        /\ Becomes([World EXCEPT !.conn[c].cliBuf = @ \o EncodeString(s),
                                 !.hist.foreignGreeting = @ \cup {c}])

\* the process the helper has greeted answers something else than READY
ForeignAnswer ==
    \E s \in OtherThan(READY) :
        LET c == helper.m_clientConnection
        IN  /\ helper.alive
            /\ helper.m_connectionState = "HandshakeReceiving"
            /\ c # 0
            /\ conn[c].serverOpen
            /\ conn[c].srvBuf = <<>>
            /\ c \notin hist.readyWritten \cup hist.foreignAnswer
            /\ Becomes([World EXCEPT !.conn[c].srvBuf = @ \o EncodeString(s),
                                     !.hist.foreignAnswer = @ \cup {c}])

\* strings a test client sends as commands: NOPE, FORMAT d, WRITE "d",
\* WRITE "d" "s", WRITE "d" "s" "x", CUSTOMIZE "d", VERIFY "d"
TestCommands ==
    {NOPE,
     PrefixFORMAT \o <<100>>,
     PrefixWRITE \o <<34, 100, 34>>,
     PrefixWRITE \o <<34, 100, 34, 32, 34, 115, 34>>,
     PrefixWRITE \o <<34, 100, 34, 32, 34, 115, 34, 32, 34, 120, 34>>,
     PrefixCUSTOMIZE \o <<34, 100, 34>>,
     PrefixVERIFY \o <<34, 100, 34>>}

\* the process at the client's end of the current connection sends a
\* string as a command to the helper in Ready
ForeignCommand ==
    \E s \in TestCommands :
        LET c == helper.m_clientConnection
        IN  /\ helper.alive
            /\ helper.m_connectionState = "Ready"
            /\ c # 0
            /\ conn[c].serverOpen
            /\ conn[c].clientOpen
            /\ conn[c].srvBuf = <<>>
            /\ c \notin hist.foreignCommand
            /\ Becomes([World EXCEPT !.conn[c].srvBuf = @ \o EncodeString(s),
                                     !.hist.foreignCommand = @ \cup {c}])

NextShake ==
    \/ NewConnection
    \/ ClientDataReceived
    \/ ClientDisconnected
    \/ HandshakeTimeout
    \/ HelperExit
    \/ EnsureHelperRunning
    \/ HandshakeWaitExpired
    \/ SocketReadyRead
    \/ PeerClosed
    \/ ForeignGreeting
    \/ ForeignAnswer
    \/ ForeignCommand

SpecShake == Init /\ [][NextShake]_vars

\* ------------------------------------------------------------------------
\* ElevationHelper: a run* call and its wait for the completion token.
\* The client is the one of connection 1; the helper is seen through what
\* it can do to that client: write frames, close the pipe, exit.
\* ------------------------------------------------------------------------

\* one step of the clock, in ms
TickMs == 15000

\* steps of the clock during one run* call
MaxTicks == 23

\* progress frames the helper writes during one command
MaxProgressFrames == 2

\* the inactivity period of runWriteToDrive
INACTIVITY_MS == 30000

\* the initial m_operationTimeoutMs
DEFAULT_TIMEOUT_MS == 300000

\* values of m_operationTimeoutMs
Timeouts == {TickMs, DEFAULT_TIMEOUT_MS}

Operations ==
    {"runFormatDrive", "runWriteToDrive", "runCustomizeImage", "runVerifyImage"}

\* FORMAT "d"
CmdFormat == PrefixFORMAT \o <<34, 100, 34>>

\* WRITE "d" "s"
CmdWrite == PrefixWRITE \o <<34, 100, 34, 32, 34, 115, 34>>

\* CUSTOMIZE "d" "" "" "" "" "" ""
CmdCustomize ==
    PrefixCUSTOMIZE \o <<34, 100, 34>> \o <<32, 34, 34>> \o <<32, 34, 34>>
        \o <<32, 34, 34>> \o <<32, 34, 34>> \o <<32, 34, 34>> \o <<32, 34, 34>>

\* the command string a run* function builds
CommandOf(operation) ==
    CASE operation = "runFormatDrive" -> CmdFormat
      [] operation = "runWriteToDrive" -> CmdWrite
      [] operation = "runCustomizeImage" -> CmdCustomize
      [] OTHER -> CmdVerify

\* the progress frames the helper writes while it runs the command
ProgressOf(operation) ==
    CASE operation = "runWriteToDrive" -> {WriteProgress}
      [] operation = "runVerifyImage" -> {VerifyProgress}
      [] OTHER -> {}

\* ensureHelperRunning() returns true: the client has connected, the helper
\* has accepted and greeted it, the client has answered, the helper is Ready
OpConnect ==
    /\ op.pc = "idle"
    /\ client[Spawner].m_connectionState = "Disconnected"
    /\ ~conn[Spawner].used
    /\ helper.alive
    /\ LET c == Spawner
           w1 == [clientChangeState(World, c, "Connecting")
                     EXCEPT !.client[c].m_messageQueue = <<>>,
                            !.client[c].m_helperProcess = TRUE,
                            !.conn[c].used = TRUE]
           w2 == [clientChangeState(w1, c, "HandshakeReceiving")
                     EXCEPT !.conn[c].clientOpen = TRUE,
                            !.helper.backlog = Append(@, c)]
           w3 == onNewConnection(w2)
           w4 == socketReadyRead(w3, c, Len(w3.conn[c].cliBuf))
           w5 == onClientDataReceived(w4, Len(w4.conn[c].srvBuf), "false", FALSE)
       IN  BecomesOp(w5, [op EXCEPT !.pc = "ready"])

\* run*(): validateStateForOperation() passes in Connected, the flags and
\* the timer are reset, sendCommand() sends the command or fails
OpSubmit ==
    \E operation \in Operations, timeout \in Timeouts :
        /\ op.pc = "ready"
        /\ validateStateForOperation(World, Spawner)
        /\ LET c == Spawner
               w1 == [World EXCEPT !.client[c].m_operationComplete = FALSE]
               o1 == [op EXCEPT !.operation = operation,
                                !.timeout = timeout,
                                !.elapsed = 0,
                                !.since = 0,
                                !.operationFailed = FALSE]
           IN  IF conn[c].clientOpen
               THEN BecomesOp(sendCommand(w1, c, CommandOf(operation)),
                              [o1 EXCEPT !.sent = TRUE,
                                         !.command = @ + 1,
                                         !.pc = IF operation = "runWriteToDrive"
                                                THEN "pre" ELSE "wait"])
               ELSE BecomesOp(w1, [o1 EXCEPT !.pc = "done", !.result = "false"])

\* the call is between sendCommand() and its return
Waiting == op.pc \in {"pre", "wait"}

\* the client dispatches events: in the application's event loop, in the
\* processEvents() of runWriteToDrive before its loop, in the processEvents()
\* of every iteration of the other wait loops
Dispatching ==
    \/ op.pc \in {"ready", "pre"}
    \/ op.pc = "wait" /\ op.operation # "runWriteToDrive"

\* the helper reports progress of the command
HelperSendsProgress ==
    /\ Waiting
    /\ helper.alive
    /\ conn[Spawner].serverOpen
    /\ ~op.tokenSent
    /\ op.progress < MaxProgressFrames
    /\ \E kind \in ProgressOf(op.operation) :
        BecomesOp(sendProgressUpdate(World, kind, op.progress + 1, MaxProgressFrames),
                  [op EXCEPT !.progress = @ + 1])

\* the helper sends the completion token of the command
HelperSendsToken ==
    /\ Waiting
    /\ helper.alive
    /\ conn[Spawner].serverOpen
    /\ ~op.tokenSent
    /\ \E status \in {SUCCESS, FAILURE} :
        BecomesOp(sendCompletionStatus(World, status, FALSE),
                  [op EXCEPT !.tokenSent = TRUE, !.answered = @ + 1])

\* the helper closes its end of the pipe
HelperClosesPipe ==
    /\ op.pc \in {"ready", "pre", "wait"}
    /\ helper.alive
    /\ conn[Spawner].serverOpen
    /\ BecomesOp(CloseServerSocket(World, Spawner),
                 [op EXCEPT !.broken = @ \/ Waiting])

\* the helper process exits: with 0 after quit(), with another code when it
\* is killed or crashes
HelperProcessExits ==
    /\ op.pc \in {"ready", "pre", "wait"}
    /\ helper.alive
    /\ \E code \in {0, 1} :
        BecomesOp(HelperGone(World),
                  [op EXCEPT !.broken = @ \/ Waiting, !.exitCode = code])

\* the completion token socketReadyRead() takes from the first k bytes, <<>>
\* if none
StatusSeen(w, c, k) ==
    LET buf == SubSeq(w.conn[c].cliBuf, 1, k)
        d == DecodeString(buf)
        first == DecodeString(Head(Append(w.client[c].m_messageQueue, buf)))
    IN  IF w.client[c].m_connectionState # "Connected" THEN <<>>
        ELSE IF d.status = "Ok"
        THEN IF d.str \in {SUCCESS, FAILURE} THEN d.str ELSE <<>>
        ELSE IF first.status = "Ok" /\ first.str \in {SUCCESS, FAILURE}
        THEN first.str ELSE <<>>

\* socketReadyRead(): as the slot of readyRead() where the client dispatches
\* events, and called by the loop of runWriteToDrive while bytes are
\* available.  A FAILURE token makes it emit error(), which sets
\* operationFailed while runWriteToDrive is under way.
OpReadyRead ==
    /\ conn[Spawner].clientOpen
    /\ op.pc \in {"ready", "pre", "wait"}
    /\ LET c == Spawner
           direct == op.pc = "wait" /\ op.operation = "runWriteToDrive"
       IN  \E k \in IF direct
                    THEN {n \in {Len(conn[c].cliBuf)} : n > 0}
                    ELSE Arrivals(conn[c].cliArrived, Len(conn[c].cliBuf)) :
              LET seen == StatusSeen(World, c, k)
              IN  BecomesOp(socketReadyRead(World, c, k),
                            [op EXCEPT
                               !.tokenSeen = IF seen # <<>> /\ Waiting
                                             THEN seen ELSE @,
                               !.taken = IF seen # <<>> THEN @ + 1 ELSE @,
                               !.seenFor = IF seen # <<>> /\ Waiting
                                           THEN op.taken + 1 ELSE @,
                               !.operationFailed =
                                   @ \/ /\ seen = FAILURE
                                        /\ Waiting
                                        /\ op.operation = "runWriteToDrive"])

\* processPendingEvents(), the slot of m_eventTimer, finds that the helper
\* process has exited; a non-zero exit code makes it emit error()
OpPendingEvents ==
    /\ Dispatching
    /\ client[Spawner].m_eventTimer
    /\ client[Spawner].m_helperProcess
    /\ ~helper.alive
    /\ BecomesOp(processPendingEvents(World, Spawner),
                 [op EXCEPT !.operationFailed =
                               @ \/ /\ op.exitCode # 0
                                    /\ op.pc = "pre"])

\* the client's socket notices that the other end is closed and emits
\* errorOccurred(); handleSocketError is its slot
OpPeerClosed ==
    /\ op.pc \in {"ready", "pre", "wait"}
    /\ conn[Spawner].clientOpen
    /\ conn[Spawner].peerClosed
    /\ \E socketError \in SocketErrors :
        BecomesOp(handleSocketError(
                      [World EXCEPT !.conn[Spawner].clientOpen = FALSE,
                                    !.conn[Spawner].peerClosed = FALSE,
                                    !.conn[Spawner].cliBuf = <<>>,
                                    !.conn[Spawner].cliArrived = 0],
                      Spawner, socketError),
                  [op EXCEPT !.sockError = @ \/ Waiting])

\* runWriteToDrive: its processEvents() call before the loop returns
OpEntersLoop ==
    /\ op.pc = "pre"
    /\ BecomesOp(World, [op EXCEPT !.pc = "wait"])

\* the wait loop finds m_operationComplete set and the call returns
OpReturn ==
    /\ op.pc = "wait"
    /\ client[Spawner].m_operationComplete
    /\ BecomesOp(World,
                 [op EXCEPT !.pc = "done",
                            !.result = IF op.operation = "runWriteToDrive"
                                          /\ op.operationFailed
                                       THEN "false" ELSE "true"])

\* TickMs later the wait loop, m_operationComplete not set, tests its
\* timer; runWriteToDrive restarts the timer when the socket is connected,
\* holds no bytes and more than INACTIVITY_MS have elapsed
OpTick ==
    /\ op.pc = "wait"
    /\ ~client[Spawner].m_operationComplete
    /\ op.since < MaxTicks * TickMs
    /\ LET e == op.elapsed + TickMs
           o1 == [op EXCEPT !.since = @ + TickMs, !.elapsed = e]
       IN  BecomesOp(World,
              IF e > op.timeout
              THEN [o1 EXCEPT !.pc = "done", !.result = "false", !.timedOut = TRUE]
              ELSE IF /\ op.operation = "runWriteToDrive"
                      /\ conn[Spawner].cliBuf = <<>>
                      /\ conn[Spawner].clientOpen
                      /\ e > INACTIVITY_MS
              THEN [o1 EXCEPT !.elapsed = 0]
              ELSE o1)

NextOp ==
    \/ OpConnect
    \/ OpSubmit
    \/ HelperSendsProgress
    \/ HelperSendsToken
    \/ HelperClosesPipe
    \/ HelperProcessExits
    \/ OpReadyRead
    \/ OpPendingEvents
    \/ OpPeerClosed
    \/ OpEntersLoop
    \/ OpReturn
    \/ OpTick

SpecOp == Init /\ [][NextOp]_vars

\* ------------------------------------------------------------------------
\* A second run* call on the connection of a call that has timed out
\* ------------------------------------------------------------------------

\* run* calls on one connection
MaxCommands == 2

\* the helper, busy with its commands in the order they came, ends one and
\* sends its completion token
HelperAnswers ==
    /\ op.answered < op.command
    /\ helper.alive
    /\ conn[Spawner].serverOpen
    /\ \E status \in {SUCCESS, FAILURE} :
        BecomesOp(sendCompletionStatus(World, status, FALSE),
                  [op EXCEPT !.answered = @ + 1])

\* the application, whose call has returned false through the timeout
\* branch with the client still Connected, is about to call a run* function
\* again
OpCallsAgain ==
    /\ op.pc = "done"
    /\ op.timedOut
    /\ op.command < MaxCommands
    /\ BecomesOp(World, [op EXCEPT !.pc = "ready",
                                   !.result = "none",
                                   !.sent = FALSE,
                                   !.timedOut = FALSE,
                                   !.tokenSeen = <<>>,
                                   !.seenFor = 0])

NextStale ==
    \/ OpConnect
    \/ OpSubmit
    \/ HelperAnswers
    \/ OpReadyRead
    \/ OpEntersLoop
    \/ OpReturn
    \/ OpTick
    \/ OpCallsAgain

SpecStale == Init /\ [][NextStale]_vars

\* ------------------------------------------------------------------------
\* SHUTDOWN while verifyImage runs: the helper with its event loop and the
\* processEvents() calls of verifyImage, clients that connect, verify and
\* shut the helper down, and a process at the client's end of the pipe that
\* goes on sending
\* ------------------------------------------------------------------------

\* processCommand has taken a SHUTDOWN command and called quit()
ShutdownTaken == \E a \in hist.answered : a.handler = "quit"

\* the process at the client's end of the current connection sends a
\* command after the helper has taken SHUTDOWN
CommandAfterShutdown ==
    \E cmd \in Commands :
        LET c == helper.m_clientConnection
        IN  /\ ShutdownTaken
            /\ helper.alive
            /\ helper.m_connectionState = "Ready"
            /\ c # 0
            /\ conn[c].serverOpen
            /\ conn[c].clientOpen
            /\ conn[c].srvBuf = <<>>
            /\ c \notin hist.foreignCommand
            /\ Becomes([World EXCEPT !.conn[c].srvBuf = @ \o EncodeString(cmd),
                                     !.hist.foreignCommand = @ \cup {c}])

NextQuit ==
    \/ NewConnection
    \/ ClientDataReceived
    \/ VerifyChunk
    \/ VerifyEnd
    \/ HelperExit
    \/ EnsureHelperRunning
    \/ SocketReadyRead
    \/ RunOperation
    \/ ShutdownHelper
    \/ CommandAfterShutdown

SpecQuit == Init /\ [][NextQuit]_vars

\* ------------------------------------------------------------------------
\* One writeImageToDevice call without the bytes: the runs of the disk
\* utility, the WriteFile attempts and the sendProgressUpdate calls, in the
\* order the function makes them.  The function does not return to the event
\* loop and does not call processEvents() before its return statement: the
\* slot it connects to m_progressTimer has no step of its own.
\* ------------------------------------------------------------------------

\* body chunks of BUFFER_SIZE bytes the source holds after its MBR block
MaxChunks == 2

\* exit codes of a diskpart run
ExitCodes == {0, 1}

\* WriteFile calls in a row that the device fails
Failures == 0 .. 3

\* m_bytesTotal of the call
JobTotal(j) == (IF j.mbrSaved THEN MBR_SIZE ELSE 0) + j.chunks * BUFFER_SIZE

\* an entry of the log: a sendProgressUpdate call with now = n ("update"),
\* a WriteFile call for body chunk n ("chunk"), the n-th WriteFile call for
\* the MBR block ("mbr"); ok is the result of WriteFile
JobLogged(j, kind, n, ok) ==
    [j EXCEPT !.log = Append(@, [kind |-> kind, n |-> n, ok |-> ok])]

JobBecomes(j) ==
    /\ job' = j
    /\ UNCHANGED <<wvars, helper, conn, client, hist, op, call>>

RECURSIVE JobAttempts(_, _, _, _, _)
\* WriteFile is called until it succeeds or tries calls were made; the
\* device fails the first failures calls
JobAttempts(j, kind, n, failures, tries) ==
    IF tries = 0 THEN j
    ELSE IF failures = 0 THEN JobLogged(j, kind, n, TRUE)
    ELSE JobAttempts(JobLogged(j, kind, n, FALSE), kind, n, failures - 1, tries - 1)

\* the source file is opened; a physical drive whose number the path gives
\* is prepared with the disk utility first
JobStart ==
    /\ job.pc = "idle"
    /\ \E phys \in BOOLEAN, numOk \in BOOLEAN, chunks \in 0..MaxChunks,
          saved \in BOOLEAN, opened \in BOOLEAN :
        /\ phys \/ ~numOk
        /\ JobBecomes(IF opened
                      THEN [job EXCEPT !.pc = IF phys /\ numOk THEN "prep" ELSE "open",
                                       !.physical = phys,
                                       !.numbered = numOk,
                                       !.chunks = chunks,
                                       !.mbrSaved = saved]
                      ELSE [job EXCEPT !.pc = "done", !.result = "false"])

\* the diskpart runs before the device is opened: list volume, offline and
\* clear read-only, list partition, and clean when partitions are listed.
\* Their exit codes are written to the debug log.
JobPrep ==
    /\ job.pc = "prep"
    /\ \E offline \in ExitCodes, clean \in ExitCodes, partitions \in BOOLEAN :
        JobBecomes([job EXCEPT !.pc = "open",
                               !.prepFailed = \/ offline # 0
                                              \/ partitions /\ clean # 0])

\* CreateFileA, three attempts; then m_bytesTotal, the two first updates,
\* the progress timer is started, the MBR block is read
JobOpen ==
    /\ job.pc = "open"
    /\ \E opened \in BOOLEAN :
        JobBecomes(IF opened
                   THEN JobLogged(JobLogged([job EXCEPT !.pc = "loop",
                                                        !.success = TRUE],
                                            "update", 0, TRUE),
                                  "update", 0, TRUE)
                   ELSE [job EXCEPT !.pc = "done", !.result = "false"])

\* mutant: the loop goes on after a failure
JobLoopGoesOn_AfterFailure(j) == j.written < j.chunks

\* while (!sourceFileObj.atEnd() && success), with the breaks of the body
JobLoopGoesOn(j) == j.success /\ j.written < j.chunks

\* one iteration of the read and write loop: SetFilePointerEx on a physical
\* drive, WriteFile, after a failure Sleep(1000) and WriteFile once more
JobChunk ==
    /\ job.pc = "loop"
    /\ JobLoopGoesOn(job)
    /\ \E seekOk \in BOOLEAN, failures \in Failures :
        /\ ~seekOk => job.physical /\ failures = 0
        /\ LET n == job.written + 1
               j == JobAttempts(job, "chunk", n, failures, 2)
           IN  JobBecomes(IF ~seekOk THEN [job EXCEPT !.success = FALSE]
                          ELSE IF failures < 2 THEN [j EXCEPT !.written = n]
                          ELSE [j EXCEPT !.success = FALSE])

\* after the loop: the stashed MBR block is written, three attempts with
\* Sleep(500) between them, and m_bytesTotal is reported
JobMBR ==
    /\ job.pc = "loop"
    /\ ~JobLoopGoesOn(job)
    /\ \E failures \in Failures :
        /\ ~(job.success /\ job.mbrSaved) => failures = 0
        /\ JobBecomes(
              IF job.success /\ job.mbrSaved
              THEN LET j == JobAttempts(job, "mbr", 1, failures, 3)
                   IN  JobLogged([j EXCEPT !.pc = "post",
                                           !.success = failures < 3],
                                 "update", JobTotal(job), TRUE)
              ELSE [job EXCEPT !.pc = "post"])

\* the handles are closed; for a physical drive with a number diskpart
\* brings the disk online and rescans, lists the partitions and assigns
\* letters.  The exit codes are written to the debug log.
JobPost ==
    /\ job.pc = "post"
    /\ \E rescan \in ExitCodes, assign \in ExitCodes, partitions \in BOOLEAN :
        /\ ~(job.physical /\ job.numbered)
              => rescan = 0 /\ assign = 0 /\ ~partitions
        /\ JobBecomes([job EXCEPT !.pc = "finish",
                                  !.postFailed = \/ rescan # 0
                                                 \/ partitions /\ assign # 0])

\* the progress timer is stopped and its slot disconnected; on success the
\* digest is stored and m_bytesTotal reported; return success
JobFinish ==
    /\ job.pc = "finish"
    /\ JobBecomes(IF job.success
                  THEN JobLogged([job EXCEPT !.pc = "done", !.result = "true"],
                                 "update", JobTotal(job), TRUE)
                  ELSE [job EXCEPT !.pc = "done", !.result = "false"])

NextJob ==
    \/ JobStart
    \/ JobPrep
    \/ JobOpen
    \/ JobChunk
    \/ JobMBR
    \/ JobPost
    \/ JobFinish

SpecJob == Init /\ [][NextJob]_vars

\* ------------------------------------------------------------------------
\* Functions of their arguments: one call each
\* ------------------------------------------------------------------------

\* everything but the call is as in Init
InitIdle ==
    /\ InitDevice
    /\ bytesPerSector = 2 * MBR_SIZE
    /\ device = Zeros(BUFFER_SIZE)
    /\ InitProtocol

\* the call returns
Returns(out) ==
    /\ call' = [call EXCEPT !.out = out]
    /\ UNCHANGED <<wvars, helper, conn, client, hist, op, job>>

\* ------------------------------------------------------------------------
\* executeFromCommandLine
\* ------------------------------------------------------------------------

\* values of --socket: not given, given empty, given with a name
SocketValues == {"unset", "", "pipe"}

\* the command line (which options are set), and what the calls made by
\* executeFromCommandLine return: m_server->listen, formatDrive,
\* writeToDrive
CommandLines ==
    [fn : {"executeFromCommandLine"},
     f : BOOLEAN, w : BOOLEAN, s : BOOLEAN, daemon : BOOLEAN,
     socket : SocketValues,
     listens : BOOLEAN, formats : BOOLEAN, writes : BOOLEAN,
     out : {-1}]

\* m_socketName after the options were read
SocketName(a) ==
    IF a.socket \notin {"unset", ""} THEN a.socket ELSE "rpihelperlocalsocket"

\* startDaemonMode(socketName)
startDaemonMode(socketName) == 0

\* mutant: a write request is looked at before a format request
executeFromCommandLine_WriteFirst(a) ==
    IF ~a.listens THEN 1
    ELSE IF a.daemon
    THEN IF SocketName(a) = "" THEN 2 ELSE startDaemonMode(SocketName(a))
    ELSE IF a.w
    THEN IF ~a.s THEN 2 ELSE IF a.writes THEN 0 ELSE 1
    ELSE IF a.f
    THEN IF a.formats THEN 0 ELSE 1
    ELSE 3

\* executeFromCommandLine(args): the value returned, or the exit code of
\* parser.showHelp(3)
executeFromCommandLine(a) ==
    IF ~a.listens THEN 1
    ELSE IF a.daemon
    THEN IF SocketName(a) = "" THEN 2 ELSE startDaemonMode(SocketName(a))
    ELSE IF a.f
    THEN IF a.formats THEN 0 ELSE 1
    ELSE IF a.w
    THEN IF ~a.s THEN 2 ELSE IF a.writes THEN 0 ELSE 1
    ELSE 3

InitCli == InitIdle /\ call \in CommandLines

CliRuns ==
    /\ call.fn = "executeFromCommandLine"
    /\ call.out = -1
    /\ Returns(executeFromCommandLine(call))

NextCli == CliRuns

SpecCli == InitCli /\ [][NextCli]_vars

\* ------------------------------------------------------------------------
\* The WRITE command string: built by runWriteToDrive, parsed by
\* processCommand
\* ------------------------------------------------------------------------

\* '/' and a character that is none of '"', '\', ' ' and '/'
Slash == 47
Letter == 97

\* longest drive path and longest source path
MaxPathLen == 2

PathChars == {Quote, Backslash, Space, Letter}

\* all paths of length 0..n
RECURSIVE PathsUpTo(_)
PathsUpTo(n) ==
    IF n = 0 THEN {<<>>}
    ELSE LET S == PathsUpTo(n - 1)
         IN  S \cup {Append(s, c) : s \in {t \in S : Len(t) = n - 1},
                                    c \in PathChars}

Paths == PathsUpTo(MaxPathLen)

\* QString::replace(before, after): every character before becomes the
\* string after
RECURSIVE Replace(_, _, _)
Replace(s, before, after) ==
    IF s = <<>> THEN <<>>
    ELSE (IF Head(s) = before THEN after ELSE <<Head(s)>>)
         \o Replace(Tail(s), before, after)

\* safeSourceFile before its quotes are escaped
ForwardSlashes(sourceFile) == Replace(sourceFile, Backslash, <<Slash>>)

\* cmd of runWriteToDrive(drive, sourceFile)
WriteCommand(drive, sourceFile) ==
    LET safeDrive == Replace(drive, Quote, <<Backslash, Quote>>)
        safeSourceFile == Replace(ForwardSlashes(sourceFile), Quote,
                                  <<Backslash, Quote>>)
    IN  PrefixWRITE \o <<Quote>> \o safeDrive \o <<Quote, Space, Quote>>
                    \o safeSourceFile \o <<Quote>>

\* the first '"' of s after position i, 0 when there is none
NextQuote(s, i) ==
    LET after == {j \in (i + 1)..Len(s) : s[j] = Quote}
    IN  IF after = {} THEN 0 ELSE CHOOSE j \in after : \A m \in after : j <= m

\* the first character of s after position i that is no space, 0 when there
\* is none
NextNoSpace(s, i) ==
    LET after == {j \in (i + 1)..Len(s) : s[j] # Space}
    IN  IF after = {} THEN 0 ELSE CHOOSE j \in after : \A m \in after : j <= m

\* "([^"]*)"\s+"([^"]*)" matches s from position i on
RegexMatchesAt(s, i) ==
    LET j == NextQuote(s, i)
        k == NextNoSpace(s, j)
    IN  /\ s[i] = Quote
        /\ j # 0
        /\ k > j + 1
        /\ s[k] = Quote
        /\ NextQuote(s, k) # 0

\* regex.match(s): hasMatch(), captured(1) and captured(2) of the leftmost
\* match
RegexMatch(s) ==
    LET starts == {i \in 1..Len(s) : RegexMatchesAt(s, i)}
    IN  IF starts = {}
        THEN [hasMatch |-> FALSE, captured1 |-> <<>>, captured2 |-> <<>>]
        ELSE LET i == CHOOSE i \in starts : \A m \in starts : i <= m
                 j == NextQuote(s, i)
                 k == NextNoSpace(s, j)
                 l == NextQuote(s, k)
             IN  [hasMatch |-> TRUE,
                  captured1 |-> SubSeq(s, i + 1, j - 1),
                  captured2 |-> SubSeq(s, k + 1, l - 1)]

\* parts of the manual parser of WRITE, from character i on
RECURSIVE ManualSplit(_, _, _, _, _, _)
ManualSplit(s, i, parts, current, inQuote, escapeNext) ==
    IF i > Len(s)
    THEN (IF current # <<>> THEN Append(parts, current) ELSE parts)
    ELSE LET c == s[i]
         IN  IF escapeNext
             THEN ManualSplit(s, i + 1, parts, Append(current, c), inQuote,
                              FALSE)
             ELSE IF c = Backslash
             THEN ManualSplit(s, i + 1, parts, current, inQuote, TRUE)
             ELSE IF c = Quote
             THEN IF inQuote /\ current # <<>>
                  THEN ManualSplit(s, i + 1, Append(parts, current), <<>>,
                                   FALSE, FALSE)
                  ELSE IF ~inQuote /\ parts = <<>>
                  THEN ManualSplit(s, i + 1, parts, <<>>, TRUE, FALSE)
                  ELSE ManualSplit(s, i + 1, parts, current, ~inQuote, FALSE)
             ELSE IF inQuote
             THEN ManualSplit(s, i + 1, parts, Append(current, c), inQuote,
                              FALSE)
             ELSE IF c = Space /\ current # <<>>
             THEN ManualSplit(s, i + 1, Append(parts, current), <<>>,
                              inQuote, FALSE)
             ELSE IF c # Space
             THEN ManualSplit(s, i + 1, parts, Append(current, c), inQuote,
                              FALSE)
             ELSE ManualSplit(s, i + 1, parts, current, inQuote, FALSE)

\* no writeImageToDevice call
NotParsed == [called |-> FALSE, drive |-> <<>>, source |-> <<>>]

\* the writeImageToDevice(source, drive) call processCommand makes for a
\* WRITE command
ParseWrite(command) ==
    LET cmdWithoutPrefix == Mid(command, Len(PrefixWRITE))
        match == RegexMatch(cmdWithoutPrefix)
        parts == ManualSplit(cmdWithoutPrefix, 1, <<>>, <<>>, FALSE, FALSE)
    IN  IF ~StartsWith(command, PrefixWRITE) THEN NotParsed
        ELSE IF match.hasMatch
        THEN [called |-> TRUE, drive |-> match.captured1,
              source |-> match.captured2]
        ELSE IF Len(parts) = 2
        THEN [called |-> TRUE, drive |-> parts[1], source |-> parts[2]]
        ELSE NotParsed

\* runWriteToDrive(drive, source) is about to be called
WriteCalls ==
    [fn : {"runWriteToDrive"}, drive : Paths, source : Paths,
     wire : {<<>>}, out : {NotParsed}]

InitParse == InitIdle /\ call \in WriteCalls

\* the client builds the command and puts it on the wire as a QString
WriteCommandSent ==
    /\ call.fn = "runWriteToDrive"
    /\ call.wire = <<>>
    /\ call' = [call EXCEPT
                   !.wire = EncodeString(WriteCommand(call.drive, call.source))]
    /\ UNCHANGED <<wvars, helper, conn, client, hist, op, job>>

\* the helper reads the QString and parses it
WriteCommandParsed ==
    /\ call.fn = "runWriteToDrive"
    /\ call.wire # <<>>
    /\ ~call.out.called
    /\ DecodeString(call.wire).status = "Ok"
    /\ Returns(ParseWrite(DecodeString(call.wire).str))

NextParse ==
    \/ WriteCommandSent
    \/ WriteCommandParsed

SpecParse == InitParse /\ [][NextParse]_vars

\* ------------------------------------------------------------------------
\* customizeImage: the lines of the config argument go into config.txt
\* ------------------------------------------------------------------------

\* '#' and '\n'
Hash == 35
Newline == 10

\* longest config argument and longest config.txt before the call
MaxConfigLen == 3

ConfigChars == {Hash, Newline, Letter}

\* all byte arrays of length 0..n
RECURSIVE ConfigsUpTo(_)
ConfigsUpTo(n) ==
    IF n = 0 THEN {<<>>}
    ELSE LET S == ConfigsUpTo(n - 1)
         IN  S \cup {Append(s, c) : s \in {t \in S : Len(t) = n - 1},
                                    c \in ConfigChars}

Configs == ConfigsUpTo(MaxConfigLen)

\* QByteArray::split('\n')
RECURSIVE Split(_)
Split(s) ==
    LET ends == {i \in 1..Len(s) : s[i] = Newline}
    IN  IF ends = {} THEN <<s>>
        ELSE LET i == CHOOSE i \in ends : \A m \in ends : i <= m
             IN  <<SubSeq(s, 1, i - 1)>> \o Split(Mid(s, i))

\* configItems: _config.split('\n') after removeAll("")
ConfigItems(config) == SelectSeq(Split(config), LAMBDA item : item # <<>>)

\* QByteArray::contains(part)
Contains(s, part) ==
    \E i \in 0..(Len(s) - Len(part)) : SubSeq(s, i + 1, i + Len(part)) = part

\* QByteArray::replace(before, after) with before not empty: every
\* occurrence, from the left
RECURSIVE ReplaceAll(_, _, _)
ReplaceAll(s, before, after) ==
    IF Len(s) < Len(before) THEN s
    ELSE IF StartsWith(s, before)
    THEN after \o ReplaceAll(Mid(s, Len(before)), before, after)
    ELSE <<Head(s)>> \o ReplaceAll(Tail(s), before, after)

\* the body of the loop over configItems: config after item
ConfigItem(config, item) ==
    IF Contains(config, <<Hash>> \o item)
    THEN ReplaceAll(config, <<Hash>> \o item, item)
    ELSE IF Contains(config, <<Newline>> \o item)
    THEN config
    ELSE IF config = <<>> \/ config[Len(config)] # Newline
    THEN config \o <<Newline>> \o item \o <<Newline>>
    ELSE config \o item \o <<Newline>>

\* the loop over configItems
RECURSIVE ConfigLoop(_, _)
ConfigLoop(config, items) ==
    IF items = <<>> THEN config
    ELSE ConfigLoop(ConfigItem(config, Head(items)), Tail(items))

\* config.txt after customizeImage with the argument _config, file being
\* config.txt before
customizeConfig(file, _config) ==
    IF _config # <<>> THEN ConfigLoop(file, ConfigItems(_config)) ELSE file

\* customizeImage is about to be called: config is the argument, file is
\* config.txt (orig: before the first call, first: after it)
CustomizeCalls ==
    {[fn |-> "customizeImage", config |-> c, orig |-> f, file |-> f,
      first |-> f, runs |-> 0] : c \in Configs, f \in Configs}

InitConfig == InitIdle /\ call \in CustomizeCalls

\* customizeImage runs with the same config once more
CustomizeRuns ==
    /\ call.fn = "customizeImage"
    /\ call.runs < 2
    /\ LET config == customizeConfig(call.file, call.config)
       IN  call' = [call EXCEPT !.file = config,
                                !.first = IF call.runs = 0 THEN config ELSE @,
                                !.runs = @ + 1]
    /\ UNCHANGED <<wvars, helper, conn, client, hist, op, job>>

NextConfig == CustomizeRuns

SpecConfig == InitConfig /\ [][NextConfig]_vars

\* ------------------------------------------------------------------------
\* Properties of the write / verify pipeline
\* ------------------------------------------------------------------------

\* the job has returned success and the device was not touched since
WriteSucceeded == wpc = "done" /\ writeResult = "success" /\ corrupted = -1

\* C1: after WRITE returns success, each device byte at offset i in
\* [0, bytes_total) equals the source byte at offset i, for every source,
\* target kind and sector size.
C1_DeviceEqualsSource ==
    WriteSucceeded =>
        \A i \in 1..Len(src) : i <= Len(device) /\ device[i] = src[i]

\* a device write that covers device offset 0
CoversZero(w) == w.off = 0 /\ w.len > 0

\* C2: in a WRITE whose source has at least MBR_SIZE bytes, a device write
\* that covers offset 0 is the last device write of the job and comes after
\* every body write: no earlier write touches offset 0, and the successful
\* job ends with the write at offset 0.
C2_MbrLast ==
    Len(src) >= MBR_SIZE =>
        /\ \A k \in 1..Len(writeLog) :
              CoversZero(writeLog[k]) => (k = Len(writeLog) /\ srcPos >= Len(src))
        /\ WriteSucceeded =>
              (writeLog # <<>> /\ CoversZero(writeLog[Len(writeLog)]))

\* C3: a successful WRITE followed by VERIFY on the unchanged device returns
\* success (the device could be opened and read).
C3_WriteThenVerify ==
    (WriteSucceeded /\ verifyResult \in {"success", "mismatch"}) =>
        verifyResult = "success"

\* C4: if one byte of the device in [0, bytes_total) is changed between a
\* successful WRITE and the following VERIFY, VERIFY returns failure.
C4_CorruptionDetected ==
    (wpc = "done" /\ writeResult = "success" /\ corrupted # -1) =>
        verifyResult # "success"

\* C5: on every successful WRITE the stored source_hash is the digest of
\* exactly the source bytes [0, bytes_total) in source order, each fed once.
C5_HashOfSource ==
    (wpc = "done" /\ writeResult = "success") => m_sourceHash = Digest(src)

\* C6: no device handle is left open when WRITE returns, on any exit path,
\* and at no point are two device handles open at once.
C6_Handles ==
    /\ openHandles <= 1
    /\ wpc \in {"idle", "done"} => openHandles = 0

\* a WRITE to a physical drive without a parsed number wrote a chunk, failed
\* later, closed its handle, reopened the drive to unlock it and returned
C6_Witness ==
    /\ wpc = "done"
    /\ writeResult = "failure"
    /\ writeLog # <<>>
    /\ isPhysicalDrive
    /\ ~driveNumberOk

\* ------------------------------------------------------------------------
\* Properties of the protocol
\* ------------------------------------------------------------------------

\* C7: on every connection the two handshake tokens go in order: the client
\* writes READY only after it has decoded HELLO, which the helper had
\* written; the helper takes READY as the handshake answer only in state
\* HandshakeReceiving, after it has finished sending HELLO on that
\* connection, and only a READY that the client wrote.
C7_HandshakeOrder ==
    /\ hist.readyWritten \subseteq hist.helloDecoded
    /\ hist.helloDecoded \subseteq hist.helloSent
    /\ \A a \in hist.readyAccepted :
          /\ a.state = "HandshakeReceiving"
          /\ a.conn \in hist.helloSent
          /\ a.conn \in hist.readyWritten

\* a handshake has completed on both sides of a connection
C7_Witness ==
    \E c \in Conns :
        /\ c \in hist.helloDecoded
        /\ c \in hist.readyWritten
        /\ [conn |-> c, state |-> "HandshakeReceiving"] \in hist.readyAccepted
        /\ client[c].m_connectionState = "Connected"
        /\ helper.m_connectionState = "Ready"
        /\ helper.m_clientConnection = c

\* C8: the helper calls processCommand only from state Ready, and only when
\* READY has been accepted on the connection that is current at that moment.
C8_DispatchOnlyAfterReady ==
    \A d \in hist.dispatched : d.state = "Ready" /\ d.handshaken

\* C9: while the helper runs, m_currentCommand is empty in every state other
\* than Processing.
C9_CommandEmptyOutsideProcessing ==
    (helper.alive /\ helper.m_connectionState # "Processing")
        => helper.m_currentCommand = <<>>

\* C10: the helper holds at most one open client connection, and it is
\* m_clientConnection; only that connection is connected to the helper's
\* slots; a connection that was replaced by a new one is closed and
\* disconnected from the slots.
C10_OneConnection ==
    /\ Cardinality({c \in Conns : conn[c].serverOpen}) <= 1
    /\ \A c \in Conns :
          (conn[c].serverOpen \/ conn[c].slots) => c = helper.m_clientConnection
    /\ \A c \in hist.replaced :
          c # helper.m_clientConnection /\ ~conn[c].serverOpen /\ ~conn[c].slots

\* a connection was accepted while another one was held open, and the
\* helper goes on with the new one
C10_Witness ==
    /\ helper.alive
    /\ hist.replaced # {}
    /\ helper.m_clientConnection # 0
    /\ conn[helper.m_clientConnection].serverOpen

C12_TimesOut ==
    /\ (Waiting /\ ~op.tokenSent) => op.since <= op.timeout
    /\ op.timedOut => (op.pc = "done" /\ op.result = "false")

\* C13: runWriteToDrive, once it has sent WRITE, has returned only if it took
\* a completion token, or its timeout elapsed, or the socket reported an
\* error.
C13_ReturnCauses ==
    (op.operation = "runWriteToDrive" /\ op.pc = "done" /\ op.sent)
        => (op.tokenSeen # <<>> \/ op.timedOut \/ op.sockError)

\* C14: a run* call during whose wait the pipe was closed or the helper
\* process exited, and which took no SUCCESS token, returns false.
C14_FailureOnBreak ==
    (op.pc = "done" /\ op.broken /\ op.tokenSeen # SUCCESS)
        => op.result = "false"

\* ------------------------------------------------------------------------
\* Properties of the helper's end of a connection
\* ------------------------------------------------------------------------

\* the pipe of the helper's current connection c has disconnected and the
\* disconnected() signal waits for the helper's event loop
PendingDisconnect(c) ==
    /\ helper.alive
    /\ helper.m_clientConnection = c
    /\ conn[c].slots
    /\ conn[c].disconnected

C16_CommandOnlyConnected == hist.commandIn \subseteq {"Connected"}

\* a run* call and shutdownHelper have both written their command
C16_Witness ==
    /\ hist.commandIn = {"Connected"}
    /\ \E c \in Conns : client[c].pc = "shutdown" /\ client[c].sent > 0

\* C17: a handshake frame that decodes to another token than the expected
\* one moves the receiving side to Error in that receive step (a helper
\* whose close() delivers disconnected() at once is reset from Error to
\* Idle in the same step), the step closes the connection, and the side
\* does not reach Connected / Ready on that connection.
C17_WrongTokenRefused ==
    /\ \A r \in hist.misgreeted :
          /\ r.after = "Error"
          /\ ~conn[r.conn].clientOpen
          /\ client[r.conn].m_connectionState # "Connected"
          /\ r.conn \notin hist.readyWritten
    /\ \A r \in hist.misanswered :
          /\ r.after \in {"Error", "Idle"}
          /\ r.closed
          /\ ~conn[r.conn].serverOpen
          /\ \A a \in hist.readyAccepted : a.conn # r.conn

\* both sides have refused a wrong token
C17_Witness ==
    /\ \E r \in hist.misgreeted : client[r.conn].pc = "idle"
    /\ \E r \in hist.misanswered : r.after = "Error"

\* C18: a handshake timeout moves the helper from HandshakeReceiving to
\* Error only for the connection its single-shot was armed for, that is
\* 5 s after the helper entered HandshakeReceiving for the current
\* connection; a single-shot armed for an earlier connection does not end
\* the handshake of a later one.
C18_TimeoutOfCurrentConnection ==
    \A r \in hist.timeouts : r.armedFor = r.conn

\* the first client has connected to the helper, which was Idle, and is
\* inside ensureHelperRunning; no other client has come, no process has
\* ended, no timeout has run out, and only helper and client have written
UndisturbedHandshake ==
    /\ client[Spawner].pc = "ensure"
    /\ helper.alive
    /\ \A c \in Conns : conn[c].used => c = Spawner
    /\ hist.timeouts = {}
    /\ hist.foreignGreeting = {}
    /\ hist.foreignAnswer = {}

\* C19: a handshake between a client and an Idle helper, neither of which
\* fails, completes however the pipe delivers: it does not end with a side
\* in Error or with the helper told to quit, from which Connected / Ready
\* cannot be reached any more.
C19_HandshakeDoesNotFail ==
    UndisturbedHandshake
        => /\ client[Spawner].m_connectionState # "Error"
           /\ helper.m_connectionState # "Error"
           /\ ~helper.quit

\* ------------------------------------------------------------------------
\* Properties of the command dispatcher
\* ------------------------------------------------------------------------

\* C20: a command received in Ready that has none of the five verbs, or
\* that does not follow the grammar of its verb, is handed to no device
\* function; the helper replies with exactly one FAILURE token and is in
\* Ready afterwards.
C20_UnknownOrMalformedFails ==
    \A r \in hist.answered :
        (r.unknownVerb \/ ~r.wellFormed)
            => /\ r.handler = "none"
               /\ r.tokens = 1
               /\ ~r.success
               /\ r.after = "Ready"

\* C20 as the code has it: the same for a command that has none of the
\* five verbs and for one whose arguments processCommand cannot take apart
\* (WRITE without two arguments, CUSTOMIZE without seven quoted ones,
\* VERIFY without three).  FORMAT hands whatever follows the verb to
\* formatDrive, and WRITE takes two quoted arguments wherever they stand.
C20_UnknownOrRejectedFails ==
    \A r \in hist.answered :
        /\ r.unknownVerb => r.handler = "none"
        /\ r.handler = "none"
            => /\ ~r.wellFormed
               /\ r.tokens = 1
               /\ ~r.success
               /\ r.after = "Ready"

\* an unknown command and a WRITE with one argument have been answered
C20_Witness ==
    /\ helper.m_connectionState = "Ready"
    /\ \E r \in hist.answered : r.unknownVerb /\ r.handler = "none"
    /\ \E r \in hist.answered : ~r.unknownVerb /\ r.handler = "none"

\* ------------------------------------------------------------------------
\* ensureHelperRunning() of the client of connection 1, with its clock.
\* The helper is seen from outside here: ShellExecuteEx, connectToServer and
\* the handshake end one way or the other.  In op, elapsed is
\* m_operationTimer.elapsed(), which changeState restarts on entering
\* Connecting, HandshakeSending and HandshakeReceiving, so that the timer is
\* valid in these states; attempts is the loop counter of the connect loop,
\* tried the connectToServer calls and spawned the helper processes started
\* by the call under way; frame holds the state the call under way was
\* entered in and, for a transitional state, the timer value; ensureCalls
\* what the calls that have returned did.  A call made while an earlier call waits is followed to
\* its return; the earlier call is not resumed.
\* ------------------------------------------------------------------------

\* time between two looks at the clock, and how many of them
EnsureTickMs == 5000
MaxEnsureTicks == 3

\* ensureHelperRunning() calls followed
MaxEnsureCalls == 2

\* m_operationTimer.elapsed() > 10000
STATE_TIMEOUT_MS == 10000

\* for (unsigned int attempts = 50; attempts != 0; attempts--)
CONNECT_ATTEMPTS == 50

Transitional(state) ==
    state \in {"Connecting", "HandshakeSending", "HandshakeReceiving"}

\* mutant: the state has timed out after exactly 10000 ms already
StateTimedOut_AtTen(elapsed) == elapsed >= STATE_TIMEOUT_MS

\* m_operationTimer.isValid() && m_operationTimer.elapsed() > 10000
StateTimedOut(elapsed) == elapsed > STATE_TIMEOUT_MS

\* changeState(newState) with its restart of m_operationTimer
EnsureChange(s, newState) ==
    [w |-> clientChangeState(s.w, Spawner, newState),
     o |-> IF /\ Transitional(newState)
              /\ s.w.client[Spawner].m_connectionState # newState
           THEN [s.o EXCEPT !.elapsed = 0] ELSE s.o]

\* how long the client has been in its transitional state
EnsureWaited ==
    IF Transitional(client[Spawner].m_connectionState) THEN op.elapsed ELSE 0

\* the call under way returns value
EnsureReturn(s, value) ==
    [w |-> [s.w EXCEPT !.client[Spawner].pc = "idle"],
     o |-> [s.o EXCEPT !.frame = <<>>,
                       !.ensureCalls = @ \cup
                           {[state |-> s.o.frame.state,
                             waited |-> s.o.frame.waited,
                             returned |-> value,
                             spawned |-> s.o.spawned,
                             overTried |-> s.o.tried > CONNECT_ATTEMPTS,
                             changed |-> TRUE,
                             after |-> s.w.client[Spawner].m_connectionState]}]]

\* a return before anything was done
EnsureReturnAtOnce(value) ==
    [op EXCEPT !.calls = @ + 1,
               !.ensureCalls = @ \cup
                   {[state |-> client[Spawner].m_connectionState,
                     waited |-> EnsureWaited,
                     returned |-> value,
                     spawned |-> 0,
                     overTried |-> FALSE,
                     changed |-> FALSE,
                     after |-> client[Spawner].m_connectionState]}]

\* TerminateProcess / CloseHandle of the handle the client holds
EnsureDropProcess(s) == [s EXCEPT !.w.client[Spawner].m_helperProcess = FALSE]

\* ensureHelperRunning() is called, by the application or by a slot while
\* an earlier call waits: its way to the connect loop.  launch is how
\* starting the helper ends: the executable is missing or ShellExecuteEx
\* fails ("failed"), the process has exited at once ("exited"), it runs
\* ("started").
EnsureCall ==
    /\ op.calls < MaxEnsureCalls
    /\ op.pc = "idle"
    /\ LET c == Spawner
           state == client[c].m_connectionState
       IN  IF state = "Connected"
           THEN BecomesOp(World, EnsureReturnAtOnce("true"))
           ELSE IF Transitional(state) /\ ~StateTimedOut(op.elapsed)
           THEN BecomesOp(World, EnsureReturnAtOnce("false"))
           ELSE \E launch \in {"failed", "exited", "started"} :
                LET s0 == [w |-> World,
                           o |-> [op EXCEPT !.calls = @ + 1,
                                            !.frame = [state |-> state,
                                                       waited |-> EnsureWaited],
                                            !.spawned = 0,
                                            !.tried = 0,
                                            !.attempts = 0]]
                    s1 == IF Transitional(state)
                          THEN EnsureChange(s0, "Disconnected") ELSE s0
                    s2 == EnsureChange(s1, "Connecting")
                    s3 == [s2 EXCEPT
                             !.w = [ClientCloseSocket(s2.w, c) EXCEPT
                                       !.client[c].m_helperProcess = FALSE,
                                       !.client[c].m_messageQueue = <<>>]]
                    s4 == [s3 EXCEPT !.w.client[c].m_helperProcess = TRUE,
                                     !.o.spawned = @ + 1]
                    r == CASE launch = "failed" ->
                                EnsureReturn(EnsureChange(s3, "Error"), "false")
                           [] launch = "exited" ->
                                EnsureReturn(EnsureChange(EnsureDropProcess(s4),
                                                          "Error"), "false")
                           [] OTHER ->
                                [s4 EXCEPT !.w.client[c].pc = "connect",
                                           !.o.attempts = CONNECT_ATTEMPTS]
                IN  BecomesOp(r.w, r.o)

\* one pass of the connect loop, or its end with attempts at 0
EnsureConnect ==
    /\ op.pc = "idle"
    /\ client[Spawner].pc = "connect"
    /\ LET c == Spawner
           s0 == [w |-> World, o |-> op]
       IN  IF op.attempts = 0
           THEN LET r == EnsureReturn(EnsureChange(EnsureDropProcess(s0), "Error"),
                                      "false")
                IN  BecomesOp(r.w, r.o)
           ELSE \E outcome \in {"exited", "connected", "refused"} :
                LET s1 == [s0 EXCEPT !.o.tried = @ + 1]
                    r == CASE outcome = "exited" ->
                                EnsureReturn(EnsureChange(EnsureDropProcess(s0),
                                                          "Error"), "false")
                           [] outcome = "connected" ->
                                LET s2 == EnsureChange(s1, "HandshakeReceiving")
                                IN  [s2 EXCEPT !.w.client[c].pc = "ensure",
                                               !.w.conn[c].used = TRUE,
                                               !.w.conn[c].clientOpen = TRUE]
                           [] OTHER -> [s1 EXCEPT !.o.attempts = @ - 1]
                IN  BecomesOp(r.w, r.o)

\* the wait for the greeting ends: HELLO was processed ("greeted"), the
\* greeting was something else ("refused"), ten waitForReadyRead(500) calls
\* returned false ("expired")
EnsureGreeting ==
    /\ op.pc = "idle"
    /\ client[Spawner].pc = "ensure"
    /\ \E outcome \in {"greeted", "refused", "expired"} :
        LET c == Spawner
            s0 == [w |-> World, o |-> op]
            r == IF outcome = "greeted"
                 THEN [EnsureChange(s0, "HandshakeSending")
                          EXCEPT !.w.client[c].pc = "sending"]
                 ELSE EnsureReturn(EnsureChange(EnsureDropProcess(s0), "Error"),
                                   "false")
        IN  BecomesOp(r.w, r.o)

\* READY is written, or the socket is found disconnected or takes fewer
\* bytes
EnsureAnswer ==
    /\ op.pc = "idle"
    /\ client[Spawner].pc = "sending"
    /\ \E written \in BOOLEAN :
        LET s0 == [w |-> World, o |-> op]
            r == IF written
                 THEN EnsureReturn(EnsureChange(s0, "Connected"), "true")
                 ELSE EnsureReturn(EnsureChange(s0, "Error"), "false")
        IN  BecomesOp(r.w, r.o)

\* EnsureTickMs pass
EnsureTick ==
    /\ op.pc = "idle"
    /\ op.elapsed < MaxEnsureTicks * EnsureTickMs
    /\ BecomesOp(World, [op EXCEPT !.elapsed = @ + EnsureTickMs])

NextEnsure ==
    \/ EnsureCall
    \/ EnsureConnect
    \/ EnsureGreeting
    \/ EnsureAnswer
    \/ EnsureTick

SpecEnsure == Init /\ [][NextEnsure]_vars

\* ------------------------------------------------------------------------
\* Properties of the framing
\* ------------------------------------------------------------------------

\* C21: a receive step that finds only the first part of a frame, on the
\* helper in HandshakeReceiving or Ready and on the client in
\* HandshakeReceiving or Connected, takes no byte from the pipe.
C21_SplitFrameNotConsumed ==
    \A r \in hist.splitReads :
        r.state \in {"HandshakeReceiving", "Ready", "Connected"}
            => r.consumed = 0

\* C22: no receive step takes bytes from the pipe and drops them: the bytes
\* are decoded and acted on, or stay for a later decode, or their owner is
\* in the Error state.
C22_NothingDiscarded ==
    \A r \in hist.discarded : r.state = "Error"

\* C23: a progress frame that reaches the client in Connected is never read
\* as a string frame, and the signal emitted for it carries its type, now
\* and total.
C23_ProgressFrameDecoded ==
    \A r \in hist.progressTaken : ~r.asString /\ r.exact

\* C24: the helper never writes two progress frames in a row with the same
\* type and now; an update equal to the frame written last writes nothing.
C24_NoRepeatedFrame == ~hist.repeated

\* an update equal to the frame written last was made, and was not written
C24_Witness == hist.suppressed /\ ~hist.repeated

\* C25: every writeImageToDevice call that has opened its device writes the
\* frame (Write, 0, total) first, whatever ran before it; a successful call
\* writes (Write, total, total) last; in every frame of the call total is
\* the size of the source, now is at most total and not below the now of
\* the frame before.
C25_WriteFramesStartToEnd ==
    \A r \in hist.writes :
        /\ r.frames # <<>>
        /\ r.frames # <<>> => Head(r.frames) = <<0, r.total>>
        /\ r.success /\ r.frames # <<>>
              => r.frames[Len(r.frames)] = <<r.total, r.total>>
        /\ \A i \in 1..Len(r.frames) :
              /\ r.frames[i][2] = r.total
              /\ r.frames[i][1] <= r.total
              /\ i > 1 => r.frames[i - 1][1] <= r.frames[i][1]

\* ------------------------------------------------------------------------
\* Properties of the lengths writeImageToDevice writes
\* ------------------------------------------------------------------------

\* every length handed to WriteFile is a multiple of bytesPerSector and the
\* bytes after the real data are zero
PaddedWrites ==
    \A k \in 1..Len(writeLog) :
        /\ writeLog[k].len % bytesPerSector = 0
        /\ writeLog[k].pad = Zeros(writeLog[k].len - writeLog[k].real)

\* C26: every length handed to a device write (body chunks and the MBR
\* write) is a multiple of the probed sector size, the bytes after the real
\* data are zero, and m_bytesWritten, which advances by the unpadded
\* lengths, is the length of the source once writeImageToDevice has
\* returned success.
C26_PaddedAndCounted ==
    /\ PaddedWrites
    /\ writeResult = "success" => m_bytesWritten = Len(src)

\* the device writes of the job lie one behind the other from offset 0 and
\* their real data make up the whole source
SequentialFromZero ==
    /\ \A k \in 1..Len(writeLog) :
          writeLog[k].off = IF k = 1 THEN 0
                            ELSE writeLog[k - 1].off + writeLog[k - 1].len
    /\ Len(src) > 0 => writeLog # <<>>

\* C27: for a source shorter than MBR_SIZE the job does not save an MBR block
\* for a last write, writes all the source bytes one after the other from
\* device offset 0, and when it has returned success the device holds the
\* source bytes.
C27_ShortSourceSequential ==
    WriteSucceeded /\ Len(src) < MBR_SIZE =>
        /\ ~mbrSaved
        /\ SequentialFromZero
        /\ \A i \in 1..Len(src) : i <= Len(device) /\ device[i] = src[i]

\* ------------------------------------------------------------------------
\* Properties of ensureHelperRunning
\* ------------------------------------------------------------------------

\* what a call does that neither is made in Connected nor refuses: at most
\* tries connect attempts, true only with the state Connected at the end
EnsureRuns(r) ==
    /\ ~r.overTried
    /\ r.returned = "true" => r.after = "Connected"

\* what a call does that returns at once
EnsureLeavesAlone(r, value) ==
    r.returned = value /\ r.spawned = 0 /\ ~r.changed

\* C28 as stated: a call in Connected returns true without starting a helper
\* or changing state; a call in Connecting, HandshakeSending or
\* HandshakeReceiving entered less than 10 seconds before returns false
\* without starting a helper or changing state; every other call starts one
\* helper, tries to connect at most 50 times and returns true only with the
\* state Connected.
C28_EnsureIdempotent ==
    \A r \in op.ensureCalls :
        IF r.state = "Connected" THEN EnsureLeavesAlone(r, "true")
        ELSE IF Transitional(r.state) /\ r.waited < STATE_TIMEOUT_MS
        THEN EnsureLeavesAlone(r, "false")
        ELSE r.spawned = 1 /\ EnsureRuns(r)

\* C28 amended: the call refuses up to and including 10000 ms in the
\* transitional state, and a call that goes on starts one helper unless
\* starting it fails, in which case it returns false in the state Error.
C28_EnsureIdempotentUpToTen ==
    \A r \in op.ensureCalls :
        IF r.state = "Connected" THEN EnsureLeavesAlone(r, "true")
        ELSE IF Transitional(r.state) /\ r.waited <= STATE_TIMEOUT_MS
        THEN EnsureLeavesAlone(r, "false")
        ELSE /\ r.spawned <= 1
             /\ r.spawned = 0 => r.returned = "false" /\ r.after = "Error"
             /\ EnsureRuns(r)

\* a call made exactly 10000 ms into a transitional state was refused
C28_Witness ==
    \E r \in op.ensureCalls :
        /\ Transitional(r.state)
        /\ r.waited = STATE_TIMEOUT_MS
        /\ EnsureLeavesAlone(r, "false")

\* C29: a socket error or an operation that timed out never leaves the
\* client in Connected: after either, the client state machine has left
\* Connected (for Error, and from there for Disconnected)
C29_ErrorLeavesConnected ==
    (op.sockError \/ op.timedOut)
        => client[Spawner].m_connectionState \in {"Error", "Disconnected"}

\* C30: the helper starts in Idle, and once it has taken SHUTDOWN (which it
\* does in Ready only) it dispatches no further command: no step after
\* that goes through the dispatch of onClientDataReceived again
C30_ShutdownEndsDispatch ==
    /\ helper.m_connectionState = "Idle"
    /\ [][ShutdownTaken => hist.serial' = hist.serial]_vars

\* ------------------------------------------------------------------------
\* Properties of one writeImageToDevice call
\* ------------------------------------------------------------------------

\* positions of the log with a WriteFile call for body chunk n
ChunkCalls(n) ==
    {i \in 1..Len(job.log) : job.log[i].kind = "chunk" /\ job.log[i].n = n}

\* positions of the log with a WriteFile call for the MBR block
MbrCalls == {i \in 1..Len(job.log) : job.log[i].kind = "mbr"}

\* positions of the log with a WriteFile call
DeviceCalls == {i \in 1..Len(job.log) : job.log[i].kind \in {"chunk", "mbr"}}

\* C31: a successful WRITE of more than one chunk reports a position
\* strictly between 0 and the total before its last chunk is written
C31_ProgressBetweenChunks ==
    (job.pc = "done" /\ job.result = "true" /\ job.chunks > 1)
        => \E i \in 1..Len(job.log), k \in ChunkCalls(job.chunks) :
              /\ i < k
              /\ job.log[i].kind = "update"
              /\ 0 < job.log[i].n
              /\ job.log[i].n < JobTotal(job)

\* C33: a call whose preparation saw a non-zero exit of the disk utility
\* fails without a WriteFile call; the exit codes of the runs after the
\* write do not change the result, which is success exactly when the
\* writes succeeded
C33_PrepFatalPostWarning ==
    job.pc = "done"
        => /\ job.prepFailed => (job.result = "false" /\ DeviceCalls = {})
           /\ job.postFailed => (job.result = "true") = job.success

\* C34: every body chunk has at most two WriteFile calls and the MBR block
\* at most three; once the second call for a chunk or the third for the MBR
\* block has failed the call returns false; after the second failed call
\* for a chunk there is no WriteFile call at all
C34_BoundedRetries ==
    /\ \A n \in 1..MaxChunks : Cardinality(ChunkCalls(n)) <= 2
    /\ Cardinality(MbrCalls) <= 3
    /\ \A n \in 1..MaxChunks :
          (Cardinality(ChunkCalls(n)) = 2 /\ \A i \in ChunkCalls(n) : ~job.log[i].ok)
              => /\ job.result # "true"
                 /\ \A i \in ChunkCalls(n), k \in DeviceCalls :
                       k > i => k \in ChunkCalls(n)
    /\ (Cardinality(MbrCalls) = 3 /\ \A i \in MbrCalls : ~job.log[i].ok)
          => job.result # "true"
    /\ job.pc = "done" /\ job.result = "true"
          => /\ \A n \in 1..job.chunks : \E i \in ChunkCalls(n) : job.log[i].ok
             /\ job.mbrSaved => \E i \in MbrCalls : job.log[i].ok

\* a call has returned false after the first chunk was written at the
\* retry and both WriteFile calls for the second chunk failed
C34_Witness ==
    /\ job.pc = "done"
    /\ job.result = "false"
    /\ Cardinality(ChunkCalls(1)) = 2
    /\ \E i \in ChunkCalls(1) : job.log[i].ok
    /\ Cardinality(ChunkCalls(2)) = 2
    /\ \A i \in ChunkCalls(2) : ~job.log[i].ok
    /\ MbrCalls = {}

\* ------------------------------------------------------------------------
\* Properties of executeFromCommandLine
\* ------------------------------------------------------------------------

\* the call has returned
CliDone == call.fn = "executeFromCommandLine" /\ call.out # -1

\* an operation is requested
CliRequested == call.f \/ call.w \/ call.daemon

\* write is requested without a source
CliNoSource == call.w /\ ~call.s

\* every requested operation succeeds
CliSucceeds == (call.f => call.formats) /\ (call.w => call.writes)

\* C32: for every combination of the options the exit code is 3 when no
\* operation is requested, 2 when write is requested without a source,
\* and otherwise 0 when the requested operation succeeds and 1 when it
\* fails
C32_ExitCodes ==
    CliDone
        => call.out = (IF ~CliRequested THEN 3
                       ELSE IF CliNoSource THEN 2
                       ELSE IF CliSucceeds THEN 0
                       ELSE 1)

\* C32 as the code has it: 1 when the pipe server cannot listen, whatever
\* is requested; else 0 with --daemon, whatever else is requested; else
\* the result of the format with -f, whatever -w and -s are; else 2 with
\* -w and no -s; else the result of the write; 3 with none of them
C32_ExitCodesInOrder ==
    CliDone
        => /\ ~call.listens => call.out = 1
           /\ call.listens /\ call.daemon => call.out = 0
           /\ call.listens /\ ~call.daemon /\ call.f
                 => call.out = (IF call.formats THEN 0 ELSE 1)
           /\ call.listens /\ ~call.daemon /\ ~call.f /\ CliNoSource
                 => call.out = 2
           /\ call.listens /\ ~call.daemon /\ ~call.f /\ call.w /\ call.s
                 => call.out = (IF call.writes THEN 0 ELSE 1)
           /\ call.listens /\ ~CliRequested => call.out = 3

\* -f and -w without -s: the format was done and 0 returned
C32_Witness ==
    /\ CliDone
    /\ call.listens /\ ~call.daemon /\ call.f /\ CliNoSource /\ call.formats
    /\ call.out = 0

\* the helper has parsed the WRITE command of runWriteToDrive
WriteParsed == call.fn = "runWriteToDrive" /\ call.out.called

\* C35: for every drive path and source path (also with double quotes,
\* backslashes or spaces in them), the drive and the source the helper parses
\* out of the WRITE command built by runWriteToDrive are the drive and the
\* source the client was given, the source with '/' for every '\'.
C35_WriteRoundTrip ==
    WriteParsed =>
        /\ call.out.drive = call.drive
        /\ call.out.source = ForwardSlashes(call.source)

\* line is one of the lines of the file
HasLine(file, line) == \E i \in 1..Len(Split(file)) : Split(file)[i] = line

\* the file with every line "#" + line turned into line
RECURSIVE Uncommented(_, _)
Uncommented(lines, line) ==
    IF lines = <<>> THEN <<>>
    ELSE <<IF Head(lines) = <<Hash>> \o line THEN line ELSE Head(lines)>>
         \o Uncommented(Tail(lines), line)

\* customizeImage has run with a config of one line
OneLineApplied ==
    /\ call.fn = "customizeImage"
    /\ call.runs >= 1
    /\ Len(ConfigItems(call.config)) = 1

\* the file ends with the line and a newline, and nothing else was added
AppendedTo(file, line, result) ==
    \/ result = file \o line \o <<Newline>>
    \/ result = file \o <<Newline>> \o line \o <<Newline>>

\* C36: for a non-empty line of the CUSTOMIZE config: a line #<line> of
\* config.txt is uncommented; else, when config.txt has the line (also as
\* its first line), the file is left as it is; else the line is appended
\* with a newline after it.  Applying the same config twice gives the file
\* that applying it once gives.
C36_ConfigLines ==
    /\ OneLineApplied =>
          LET line == ConfigItems(call.config)[1]
          IN  IF HasLine(call.orig, <<Hash>> \o line)
              THEN Split(call.first) = Uncommented(Split(call.orig), line)
              ELSE IF HasLine(call.orig, line)
              THEN call.first = call.orig
              ELSE AppendedTo(call.orig, line, call.first)
    /\ (call.fn = "customizeImage" /\ call.runs = 2) => call.file = call.first

\* the run* call has returned
OpDone == op.pc = "done" /\ op.operation \in Operations

\* C37: a run* call (runFormatDrive, runWriteToDrive, runCustomizeImage,
\* runVerifyImage) returns true only if it took the SUCCESS token the helper
\* sent for its command, and it returns false when the token it took is
\* FAILURE.
C37_ResultFollowsToken ==
    OpDone =>
        /\ op.result = "true" => op.tokenSeen = SUCCESS
        /\ op.tokenSeen = FAILURE => op.result = "false"

\* the client has taken a completion token as the result of the call
TokenTaken == op.seenFor # 0

\* C38: a completion token the client takes as the result of a run* call
\* was sent by the helper in reply to the command of that call, never in
\* reply to the command of an earlier call that was given up on timeout.
C38_TokenOfSameCommand == TokenTaken => op.seenFor = op.command

\* C39: VERIFY returns success only if the most recent WRITE on this helper
\* has succeeded: after no WRITE, after a failed WRITE, and after a failed
\* WRITE that followed a successful one, it fails.
C39_VerifyAfterLastWrite == verifyResult = "success" => writeResult = "success"

\* C40: whenever the helper is in state Ready or Processing, it holds a
\* client connection and that connection is open; so after a completion
\* token that could not be sent, the connection being closed or missing, the
\* helper is not back in Ready.
C40_ReadyHoldsConnection ==
    (helper.alive /\ helper.m_connectionState \in {"Ready", "Processing"}) =>
        /\ helper.m_clientConnection # 0
        /\ conn[helper.m_clientConnection].serverOpen

====
